---- MODULE Spec2Model ----
(***************************************************************************)
(* Bin-indexed liquidity modelling of the DLMM dashboard: the default      *)
(* liquidity distribution of the add-liquidity service and form, the       *)
(* range removal of the remove-liquidity service, and the position         *)
(* aggregation of the position-management service.                         *)
(***************************************************************************)
EXTENDS Integers, Sequences, FiniteSets, TLC

VARIABLES
    argBinsLeft,            \* generateDefaultDistribution: argument binsLeft
    argBinsRight,           \* generateDefaultDistribution: argument binsRight
    distribution,           \* generateDefaultDistribution: returned entries
    distPc,                 \* "args" before the call, "returned" after it
    binsLeft,               \* AddLiquidityInterface formData.binsLeft
    binsRight,              \* AddLiquidityInterface formData.binsRight
    liquidityDistribution,  \* AddLiquidityInterface liquidityDistribution state
    mounted,                \* AddLiquidityInterface: the first effects have run
    positions,              \* RemoveLiquidityRequest.positions / userPositions
    call,                   \* remove-liquidity: the latest call and what it returned
    pools,                  \* what /api/pool-position and /api/bin-position hold
    detailed,               \* DetailedPosition[] handed to the summary and grouping
    pmCall,                 \* position management: the latest call and its result
    request,                \* AddLiquidityRequest handed to the validation
    validation,             \* what validateAddLiquidityParameters returned
    binCall,                \* bin data: the latest call and what it returned
    retry,                  \* withRetry: the call in progress and what it returned
    poolModule,             \* fetchAllPools: the module in use, pools.ts or its earlier copy
    poolClock,              \* Date.now()
    allPools,               \* pools.ts: let allPools
    lastFetch,              \* pools.ts: let lastFetch
    fetchCalls,             \* fetchAllPools: the calls made, each with its position
    cachedBinData,          \* dlmm.ts: let cachedBinData
    cacheTimestamp,         \* dlmm.ts: let cacheTimestamp
    enhancedDb,             \* what fetch('/enhanced_pools.json') answers
    realPools,              \* what loadRealPools answers
    liquidityCall,          \* getBinLiquidity: the call in progress and its result
    formData,               \* RemoveLiquidityInterface formData
    userPositions,          \* RemoveLiquidityInterface userPositions state
    filteredPositions,      \* RemoveLiquidityInterface filteredPositions state
    validationErrors,       \* RemoveLiquidityInterface validationErrors state
    successMessage,         \* RemoveLiquidityInterface successMessage state
    isLoading,              \* RemoveLiquidityInterface isLoading state
    isLoadingPositions,     \* RemoveLiquidityInterface isLoadingPositions state
    debounceTimer,          \* the pending setTimeout(loadPositions, 500), if any
    positionLoads           \* the getUserPositions calls of loadPositions in flight

distVars == <<argBinsLeft, argBinsRight, distribution, distPc>>
addFormVars == <<binsLeft, binsRight, liquidityDistribution, mounted>>
removeVars == <<positions, call>>
positionVars == <<pools, detailed, pmCall>>
validateVars == <<request, validation>>
binVars == <<binCall>>
retryVars == <<retry>>
poolVars == <<poolModule, poolClock, allPools, lastFetch, fetchCalls>>
liquidityVars == <<cachedBinData, cacheTimestamp, enhancedDb, realPools, liquidityCall>>
removeFormVars ==
    <<formData, userPositions, filteredPositions, validationErrors, successMessage, isLoading,
      isLoadingPositions, debounceTimer, positionLoads>>
vars ==
    <<distVars, addFormVars, removeVars, positionVars, validateVars, binVars, retryVars,
      poolVars, liquidityVars, removeFormVars>>

----------------------------------------------------------------------------
(* Bounds of the model *)

MaxBins == 20           \* largest bin count passed to the service directly
MaxNegBins == 2         \* most negative bin count passed to the service
MaxTyped == 2           \* largest number typed into a bins input of the form
MaxPositions == 2       \* positions in a removal request
MaxBinId == 2           \* bin ids of positions and removal ranges are 0..MaxBinId
MaxPools == 2           \* pools the pool-level fetch returns
MaxDetailed == 3        \* positions handed to the summary and the grouping
MaxEntries == 2         \* entries of a liquidity distribution handed to the validation
MaxPriceOffset == 3     \* bin ids of the conversions are at most this far from the center
MaxRetryArg == 4        \* largest maxRetries handed to withRetry
MaxCallDepth == 3       \* nested getBinLiquidity frames are counted up to this many
MaxLoads == 2           \* getUserPositions calls of the form in flight at once

----------------------------------------------------------------------------
(* Small helpers *)

Max(a, b) == IF a >= b THEN a ELSE b
Min(a, b) == IF a <= b THEN a ELSE b
Abs(a) == IF a < 0 THEN -a ELSE a

RECURSIVE Pow2(_)
Pow2(n) == IF n <= 0 THEN 1 ELSE 2 * Pow2(n - 1)

\* the function f on 1..n as an explicit tuple (evaluated once, not per use)
Tuple(f) == f \o <<>>

----------------------------------------------------------------------------
(* IEEE-754 binary64 arithmetic of the JavaScript Number type, for the     *)
(* positive normal values the distribution generator computes.  A double   *)
(* is [q |-> <<q1, q2, q3, q4>>, e |-> exponent]: its 53-bit significand   *)
(* is 2^52 + q1 * 2^39 + q2 * 2^26 + q3 * 2^13 + q4 (a leading 1 and four  *)
(* limbs of 13 bits) and its value is significand * 2^e.                   *)

LimbBits == 13
Limbs == 4
LimbBase == Pow2(LimbBits)
FractionBits == LimbBits * Limbs

\* significand + 1: the limbs after a carry into the last one
RECURSIVE IncLimbs(_, _)
IncLimbs(q, k) ==
    IF k = 0 THEN q
    ELSE IF q[k] + 1 < LimbBase THEN [q EXCEPT ![k] = q[k] + 1]
    ELSE IncLimbs([q EXCEPT ![k] = 0], k - 1)

\* round to nearest, ties to even: q, e are the exact value truncated to 53 bits;
\* up says the discarded part is more than half a unit of the last place, tie
\* that it is exactly half
RoundToDouble(q, e, up, tie) ==
    IF up \/ (tie /\ q[Limbs] % 2 = 1)
    THEN IF \A k \in 1..Limbs : q[k] = LimbBase - 1
         THEN [q |-> [k \in 1..Limbs |-> 0], e |-> e + 1]
         ELSE [q |-> IncLimbs(q, Limbs), e |-> e]
    ELSE [q |-> q, e |-> e]

\* the exponent x with 2^x <= a / b < 2^(x+1), for integers a, b > 0
RECURSIVE Log2Floor(_, _)
Log2Floor(a, b) ==
    IF a < b THEN Log2Floor(2 * a, b) - 1
    ELSE IF a >= 2 * b THEN Log2Floor(a, 2 * b) + 1
    ELSE 0

\* long division in base 2^13: the remainder left after k limbs of r / d
RECURSIVE RemAfter(_, _, _)
RemAfter(r, d, k) ==
    IF k = 0 THEN r ELSE (RemAfter(r, d, k - 1) * LimbBase) % d

\* the double nearest to a / b, for integers 0 < a, b < 2^14 (JavaScript a / b)
DoubleDiv(a, b) ==
    LET x == Log2Floor(a, b)
        n == IF x < 0 THEN a * Pow2(-x) ELSE a
        d == IF x > 0 THEN b * Pow2(x) ELSE b
        q == Tuple([k \in 1..Limbs |-> (RemAfter(n - d, d, k - 1) * LimbBase) \div d])
        r == RemAfter(n - d, d, Limbs)
    IN  RoundToDouble(q, x - FractionBits, 2 * r > d, 2 * r = d)

\* the carry out of limb k when the limbs q are multiplied by c
RECURSIVE MulCarry(_, _, _)
MulCarry(q, c, k) ==
    IF k > Limbs THEN 0 ELSE (q[k] * c + MulCarry(q, c, k + 1)) \div LimbBase

\* halve [top; q] until top = 1, keeping the last bit shifted out (guard) and
\* whether any bit shifted out before it was set (sticky)
RECURSIVE Normalize(_, _, _, _, _)
Normalize(top, q, e, guard, sticky) ==
    IF top = 1 THEN [q |-> q, e |-> e, guard |-> guard, sticky |-> sticky]
    ELSE Normalize(top \div 2,
                   Tuple([k \in 1..Limbs |->
                       (q[k] \div 2) + (LimbBase \div 2) *
                           (IF k = 1 THEN top % 2 ELSE q[k - 1] % 2)]),
                   e + 1, q[Limbs] % 2 = 1, sticky \/ guard)

\* the double nearest to x * c, for a double x and an integer 0 < c < 2^14
DoubleMulInt(x, c) ==
    LET p == Tuple([k \in 1..Limbs |-> (x.q[k] * c + MulCarry(x.q, c, k + 1)) % LimbBase])
        top == c + MulCarry(x.q, c, 1)
        n == Normalize(top, p, x.e, FALSE, FALSE)
    IN  RoundToDouble(n.q, n.e, n.guard /\ n.sticky, n.guard /\ ~n.sticky)

\* the integer whose base-2^13 digits are the leading 1 and the first k limbs
RECURSIVE IntOfLimbs(_, _)
IntOfLimbs(q, k) ==
    IF k = 0 THEN 1 ELSE IntOfLimbs(q, k - 1) * LimbBase + q[k]

\* Math.floor of a double x with 1 <= x < 2^31
DoubleFloor(x) ==
    LET drop == -x.e                    \* fraction bits of the significand
        j == drop \div LimbBits         \* whole limbs dropped
        t == drop % LimbBits            \* bits dropped from the last kept limb
    IN  IF drop > FractionBits THEN 0
        ELSE IF t = 0 THEN IntOfLimbs(x.q, Limbs - j)
        ELSE IntOfLimbs(x.q, Limbs - j - 1) * Pow2(LimbBits - t)
                 + x.q[Limbs - j] \div Pow2(t)

----------------------------------------------------------------------------
(* AddLiquidityService.generateDefaultDistribution *)

TotalDistribution == 10000

NaN == "NaN"

\* line 225-226: Math.floor((weight / (totalBins * totalBins)) * 10000)
normalizedWeight(i, totalBins) ==
    LET weight == Max(1, totalBins - Abs(i))
    IN  DoubleFloor(DoubleMulInt(DoubleDiv(weight, totalBins * totalBins),
                                 TotalDistribution))

\* unnormalized with the loop stopping one bin early (i < binsRight)
unnormalizedShort(left, right) ==
    LET totalBins == left + right + 1
    IN  Tuple([k \in 1..Max(0, left + right) |->
            LET i == k - 1 - left
                w == normalizedWeight(i, totalBins)
            IN  IF i < 0 THEN [relativeBinId |-> i, distributionX |-> 2 * w, distributionY |-> 0]
                ELSE IF i > 0 THEN [relativeBinId |-> i, distributionX |-> 0, distributionY |-> 2 * w]
                ELSE [relativeBinId |-> 0, distributionX |-> w, distributionY |-> w]])

\* unnormalized with the two sides exchanged (token Y left of the active bin)
unnormalizedSwapped(left, right) ==
    LET totalBins == left + right + 1
    IN  Tuple([k \in 1..Max(0, left + right + 1) |->
            LET i == k - 1 - left
                w == normalizedWeight(i, totalBins)
            IN  IF i < 0 THEN [relativeBinId |-> i, distributionX |-> 0, distributionY |-> 2 * w]
                ELSE IF i > 0 THEN [relativeBinId |-> i, distributionX |-> 2 * w, distributionY |-> 0]
                ELSE [relativeBinId |-> 0, distributionX |-> w, distributionY |-> w]])

\* lines 223-250: the entries before normalisation.  The active bin holds
\* normalizedWeight / 2 on each side, which need not be an integer, so the two
\* amounts are kept in halves: distributionX and distributionY are twice the
\* JavaScript values.
unnormalized(left, right) ==
    LET totalBins == left + right + 1
    IN  Tuple([k \in 1..Max(0, left + right + 1) |->
            LET i == k - 1 - left
                w == normalizedWeight(i, totalBins)
            IN  IF i < 0 THEN [relativeBinId |-> i, distributionX |-> 2 * w, distributionY |-> 0]
                ELSE IF i > 0 THEN [relativeBinId |-> i, distributionX |-> 0, distributionY |-> 2 * w]
                ELSE [relativeBinId |-> 0, distributionX |-> w, distributionY |-> w]])

\* line 253: the sum of distributionX + distributionY (exact: halves of small
\* integers), in whole units
RECURSIVE sumHalves(_, _)
sumHalves(entries, k) ==
    IF k = 0 THEN 0
    ELSE sumHalves(entries, k - 1) + entries[k].distributionX + entries[k].distributionY

\* line 254: factor = 10000 / total; total = 0 only for an empty list
normalizationFactor(total) ==
    IF total = 0 THEN [infinite |-> TRUE]
    ELSE LET f == DoubleDiv(TotalDistribution, total)
         IN  [infinite |-> FALSE, q |-> f.q, e |-> f.e]

\* lines 258-259: Math.floor(d * factor), d given in halves
scaled(halves, factor) ==
    IF halves = 0
    THEN IF factor.infinite THEN NaN ELSE 0      \* 0 * Infinity is NaN
    ELSE LET product == DoubleMulInt(factor, halves)
         IN  DoubleFloor([q |-> product.q, e |-> product.e - 1])

\* lines 256-260
normalized(raw, factor) ==
    Tuple([k \in 1..Len(raw) |->
            [relativeBinId |-> raw[k].relativeBinId,
             distributionX |-> scaled(raw[k].distributionX, factor),
             distributionY |-> scaled(raw[k].distributionY, factor)]])

normalizedTo(raw) ==
    normalized(raw, normalizationFactor(sumHalves(raw, Len(raw)) \div 2))

generateDefaultDistribution(left, right) == normalizedTo(unnormalized(left, right))

\* the reduce of lines 114-117 (form) and 184-187 (validation)
RECURSIVE totalOf(_, _)
totalOf(entries, k) ==
    IF k = 0 THEN 0
    ELSE totalOf(entries, k - 1) + entries[k].distributionX + entries[k].distributionY

totalDistribution(entries) == totalOf(entries, Len(entries))

----------------------------------------------------------------------------
(* The service called directly *)

\* no call of the service under way; the parameters at their defaults (line 218)
DistIdle ==
    /\ argBinsLeft = 5
    /\ argBinsRight = 5
    /\ distribution = <<>>
    /\ distPc = "args"

DistInit ==
    /\ argBinsLeft \in -MaxNegBins..MaxBins
    /\ argBinsRight \in -MaxNegBins..MaxBins
    /\ distribution = <<>>
    /\ distPc = "args"

GenerateDefaultDistribution ==
    /\ distPc = "args"
    /\ distribution' = generateDefaultDistribution(argBinsLeft, argBinsRight)
    /\ distPc' = "returned"
    /\ UNCHANGED <<argBinsLeft, argBinsRight, addFormVars, removeVars, positionVars, validateVars, binVars, retryVars, poolVars, liquidityVars, removeFormVars>>

----------------------------------------------------------------------------
(* AddLiquidityInterface: the bins inputs and the distribution effect *)

FormMinBins == 1
FormMaxBins == 20
FormDefaultBins == 5

AddFormInit ==
    /\ binsLeft = FormDefaultBins
    /\ binsRight = FormDefaultBins
    /\ liquidityDistribution = <<>>
    /\ mounted = FALSE

\* the distribution effect of lines 42-48 running after the first render
MountAddLiquidity ==
    /\ ~mounted
    /\ mounted' = TRUE
    /\ liquidityDistribution' = generateDefaultDistribution(binsLeft, binsRight)
    /\ UNCHANGED <<binsLeft, binsRight, distVars, removeVars, positionVars, validateVars, binVars, retryVars, poolVars, liquidityVars, removeFormVars>>

\* parseInt(e.target.value) || 1
typedBins(v) == IF v = 0 THEN 1 ELSE v

\* handleInputChange('binsLeft', value) followed by the distribution effect
SetBinsLeft(value) ==
    /\ mounted
    /\ binsLeft' = value
    /\ liquidityDistribution' = generateDefaultDistribution(value, binsRight)
    /\ UNCHANGED <<binsRight, mounted, distVars, removeVars, positionVars, validateVars, binVars, retryVars, poolVars, liquidityVars, removeFormVars>>

SetBinsRight(value) ==
    /\ mounted
    /\ binsRight' = value
    /\ liquidityDistribution' = generateDefaultDistribution(binsLeft, value)
    /\ UNCHANGED <<binsLeft, mounted, distVars, removeVars, positionVars, validateVars, binVars, retryVars, poolVars, liquidityVars, removeFormVars>>

BinsLeftMinus == SetBinsLeft(Max(FormMinBins, binsLeft - 1))
BinsLeftPlus == SetBinsLeft(Min(FormMaxBins, binsLeft + 1))
BinsLeftTyped == \E v \in -1..MaxTyped : SetBinsLeft(typedBins(v))
BinsRightMinus == SetBinsRight(Max(FormMinBins, binsRight - 1))
BinsRightPlus == SetBinsRight(Min(FormMaxBins, binsRight + 1))
BinsRightTyped == \E v \in -1..MaxTyped : SetBinsRight(typedBins(v))

\* the submit button's disabled condition on the distribution (line 448)
submitBlocked == totalDistribution(liquidityDistribution) # TotalDistribution

----------------------------------------------------------------------------
(* Strings and Numbers.  A string is a tuple of one-character strings.  A  *)
(* Number is [nan |-> BOOLEAN, cents |-> hundredths]: the strings of the   *)
(* model carry at most two fraction digits, and sums of such values are    *)
(* far from every rounding boundary of binary64.                           *)

DigitChars == <<"0", "1", "2", "3", "4", "5", "6", "7", "8", "9">>
isDigit(c) == \E d \in 1..10 : DigitChars[d] = c
digitValue(c) == (CHOOSE d \in 1..10 : DigitChars[d] = c) - 1

NaNNumber == [nan |-> TRUE, cents |-> 0]
number(c) == [nan |-> FALSE, cents |-> c]

\* the index after the run of digits that starts at s[i]
digitsEnd(s, i) ==
    CHOOSE k \in i..(Len(s) + 1) :
        /\ \A j \in i..(k - 1) : isDigit(s[j])
        /\ k = Len(s) + 1 \/ ~isDigit(s[k])

\* the value of the digits s[i..j-1]
RECURSIVE digitsValue(_, _, _)
digitsValue(s, i, j) ==
    IF j <= i THEN 0 ELSE 10 * digitsValue(s, i, j - 1) + digitValue(s[j - 1])

\* parseFloat: an optional sign, digits, an optional point and fraction digits;
\* the longest such prefix is the value, and NaN when it holds no digit
parseFloat(s) ==
    LET neg == Len(s) >= 1 /\ s[1] = "-"
        i0 == IF Len(s) >= 1 /\ s[1] \in {"-", "+"} THEN 2 ELSE 1
        i1 == digitsEnd(s, i0)
        point == i1 <= Len(s) /\ s[i1] = "."
        f0 == i1 + 1
        f1 == IF point THEN digitsEnd(s, f0) ELSE f0
        whole == digitsValue(s, i0, i1)
        frac == IF f1 = f0 THEN 0
                ELSE IF f1 = f0 + 1 THEN 10 * digitValue(s[f0])
                ELSE 10 * digitValue(s[f0]) + digitValue(s[f0 + 1])
        magnitude == 100 * whole + frac
    IN  IF i1 = i0 /\ f1 = f0 THEN NaNNumber
        ELSE number(IF neg THEN -magnitude ELSE magnitude)

\* a + b on Numbers
numAdd(a, b) == IF a.nan \/ b.nan THEN NaNNumber ELSE number(a.cents + b.cents)

\* the decimal digits of a natural number
RECURSIVE natDigits(_)
natDigits(n) ==
    IF n < 10 THEN <<DigitChars[n + 1]>>
    ELSE Append(natDigits(n \div 10), DigitChars[(n % 10) + 1])

NaNString == <<"N", "a", "N">>

\* Number.prototype.toFixed(2)
toFixed2(x) ==
    IF x.nan THEN NaNString
    ELSE LET a == Abs(x.cents)
         IN  (IF x.cents < 0 THEN <<"-">> ELSE <<>>)
                 \o natDigits(a \div 100)
                 \o <<".", DigitChars[((a \div 10) % 10) + 1], DigitChars[(a % 10) + 1]>>

\* Number.prototype.toString(): the shortest decimal form
numberToString(x) ==
    IF x.nan THEN NaNString
    ELSE LET a == Abs(x.cents)
             sign == IF x.cents < 0 THEN <<"-">> ELSE <<>>
         IN  IF a % 100 = 0 THEN sign \o natDigits(a \div 100)
             ELSE IF a % 10 = 0
                  THEN sign \o natDigits(a \div 100) \o <<".", DigitChars[((a \div 10) % 10) + 1]>>
             ELSE sign \o natDigits(a \div 100)
                      \o <<".", DigitChars[((a \div 10) % 10) + 1], DigitChars[(a % 10) + 1]>>

----------------------------------------------------------------------------
(* AddLiquidityService.validateAddLiquidityParameters *)

\* new PublicKey(address) succeeds on the base58 form of 32 bytes
PublicKeys ==
    { "So11111111111111111111111111111111111111112",
      "EPjFWdd5AufqSSqeM2qN1xzybapC8G4wEGGkZwyTDt1v",
      "1qbkdrr3z4ryLA7pZykqxvxWPoeifcVKo6ZG9CfkvVE" }
isPublicKey(address) == address \in PublicKeys

\* lines 172 and 176: !amount || parseFloat(amount) <= 0
amountRejected(amount) ==
    \/ amount = <<>>
    \/ (~parseFloat(amount).nan /\ parseFloat(amount).cents <= 0)

\* lines 184-187
requestTotalDistribution(entries) ==
    totalOf(entries, Len(entries))

\* lines 194-201: the messages of the first k entries
RECURSIVE ruleErrors(_, _)
ruleErrors(entries, k) ==
    IF k = 0 THEN <<>>
    ELSE LET dist == entries[k]
         IN  ruleErrors(entries, k - 1)
                 \o (IF dist.relativeBinId < 0 /\ dist.distributionY > 0
                     THEN <<"Negative bin IDs can only have token X distribution">>
                     ELSE <<>>)
                 \o (IF dist.relativeBinId > 0 /\ dist.distributionX > 0
                     THEN <<"Positive bin IDs can only have token Y distribution">>
                     ELSE <<>>)

\* lines 180-202
distributionErrors(entries) ==
    IF Len(entries) = 0 THEN <<"Liquidity distribution is required">>
    ELSE (IF requestTotalDistribution(entries) # TotalDistribution
          THEN <<"Total distribution must equal 10000 (100%)">>
          ELSE <<>>)
             \o ruleErrors(entries, Len(entries))

\* lines 161-215
validateAddLiquidityParameters(req) ==
    LET errors ==
            (IF isPublicKey(req.poolAddress) THEN <<>> ELSE <<"Invalid pool address">>)
                \o (IF amountRejected(req.amountX)
                    THEN <<"Amount X must be greater than 0">> ELSE <<>>)
                \o (IF amountRejected(req.amountY)
                    THEN <<"Amount Y must be greater than 0">> ELSE <<>>)
                \o distributionErrors(req.liquidityDistribution)
                \o (IF isPublicKey(req.walletPublicKey) THEN <<>>
                    ELSE <<"Invalid wallet address">>)
    IN  [isValid |-> Len(errors) = 0, errors |-> errors]

\* the entries a caller may hand in
DistributionShares == {0, TotalDistribution \div 2, TotalDistribution}
DistributionEntries ==
    [relativeBinId : -1..1, distributionX : DistributionShares,
     distributionY : DistributionShares]
DistributionLists ==
    UNION { [1..n -> DistributionEntries] : n \in 0..MaxEntries }

\* the other fields of the request: all valid, and one sample per defect
RequestFrames ==
    { [poolAddress |-> "1qbkdrr3z4ryLA7pZykqxvxWPoeifcVKo6ZG9CfkvVE",
       amountX |-> <<"1", ".", "5">>, amountY |-> <<"2">>,
       walletPublicKey |-> "So11111111111111111111111111111111111111112"],
      [poolAddress |-> "not-a-key",
       amountX |-> <<>>, amountY |-> <<"2">>,
       walletPublicKey |-> "So11111111111111111111111111111111111111112"],
      [poolAddress |-> "1qbkdrr3z4ryLA7pZykqxvxWPoeifcVKo6ZG9CfkvVE",
       amountX |-> <<"a", "b", "c">>, amountY |-> <<"0">>,
       walletPublicKey |-> ""] }

Request(frame, entries) ==
    [poolAddress |-> frame.poolAddress, amountX |-> frame.amountX,
     amountY |-> frame.amountY, liquidityDistribution |-> entries,
     walletPublicKey |-> frame.walletPublicKey]

ValidateIdle ==
    /\ request = Request(CHOOSE f \in RequestFrames : isPublicKey(f.walletPublicKey)
                                                      /\ isPublicKey(f.poolAddress), <<>>)
    /\ validation = [called |-> FALSE]

ValidateInit ==
    /\ request \in { Request(f, d) : f \in RequestFrames, d \in DistributionLists }
    /\ validation = [called |-> FALSE]

\* a caller validating the request; the request is read and never written
ValidateAddLiquidityParameters ==
    /\ ~validation.called
    /\ validation' = [called |-> TRUE, result |-> validateAddLiquidityParameters(request)]
    /\ UNCHANGED <<request, distVars, addFormVars, removeVars, positionVars, binVars, retryVars, poolVars, liquidityVars, removeFormVars>>

----------------------------------------------------------------------------
(* RemoveLiquidityService *)

RemoveBoth == "removeBoth"
RemoveX == "removeBaseToken"
RemoveY == "removeQuoteToken"
RemoveLiquidityTypes == {RemoveBoth, RemoveX, RemoveY}

Mints == <<"P1", "P2", "P3", "P4">>

\* what the k-th position holds when the list carries amounts; a list loaded by
\* getUserPositions carries "0" everywhere (lines 80-81)
FundedX == <<(<<"7">>), (<<"2", "0">>), (<<"1", "0", "0">>), (<<"4", "0", "0">>)>>
FundedY == <<(<<"3">>), (<<"5">>), (<<"4", "0">>), (<<"9", "0">>)>>

UserPosition(k, lower, upper, funded) ==
    [position |-> Mints[k], positionMint |-> Mints[k],
     lowerBinId |-> lower, upperBinId |-> upper,
     totalLiquidityX |-> IF funded THEN FundedX[k] ELSE <<"0">>,
     totalLiquidityY |-> IF funded THEN FundedY[k] ELSE <<"0">>]

BinIds == 0..MaxBinId

\* the positions of a wallet in a pool: distinct mints, lowerBinId <= upperBinId
UserPositionAt(k, funded) ==
    { UserPosition(k, r[1], r[2], funded) :
        r \in { r \in BinIds \X BinIds : r[1] <= r[2] } }

PositionLists ==
    UNION { { ps \in [1..n -> UNION { UserPositionAt(k, funded) : k \in 1..n }] :
                \A k \in 1..n : ps[k] \in UserPositionAt(k, funded) } :
            n \in 0..MaxPositions, funded \in BOOLEAN }

BinRanges == BinIds \X BinIds

\* the filter with the comparisons made inclusive-exclusive the wrong way
overlapsStrict(pos, binRange) ==
    ~(pos.upperBinId <= binRange[1] \/ pos.lowerBinId >= binRange[2])

\* lines 128, 353 and form line 75: the overlap test
overlaps(pos, binRange) ==
    ~(pos.upperBinId < binRange[1] \/ pos.lowerBinId > binRange[2])

\* Array.prototype.filter with the overlap test
RECURSIVE filterOverlapping(_, _, _)
filterOverlapping(ps, binRange, k) ==
    IF k = 0 THEN <<>>
    ELSE IF overlaps(ps[k], binRange)
         THEN Append(filterOverlapping(ps, binRange, k - 1), ps[k])
         ELSE filterOverlapping(ps, binRange, k - 1)

\* lines 127-131
relevantPositions(ps, binRange) == filterOverlapping(ps, binRange, Len(ps))

\* lines 140-152
maxPositionList(relevant, binRange) ==
    [k \in 1..Len(relevant) |->
        [position |-> relevant[k].position,
         start |-> Max(binRange[1], relevant[k].lowerBinId),
         end |-> Min(binRange[2], relevant[k].upperBinId),
         positionMint |-> relevant[k].positionMint]]

\* what removeMultipleLiquidity hands back: an optional account-creating
\* transaction, the removal transactions, an optional account-closing one
SdkResults ==
    { [txCreateAccount |-> FALSE, txs |-> 1, txCloseAccount |-> FALSE],
      [txCreateAccount |-> TRUE, txs |-> 2, txCloseAccount |-> TRUE] }

\* lines 179-189
allTxs(sdk) ==
    (IF sdk.txCreateAccount THEN <<"txCreateAccount">> ELSE <<>>)
        \o [k \in 1..sdk.txs |-> "tx"]
        \o (IF sdk.txCloseAccount THEN <<"txCloseAccount">> ELSE <<>>)

\* lines 94-208; sdkThrows: getPairAccount, getLatestBlockhash or
\* removeMultipleLiquidity rejects
removeLiquidityFromRange(ps, binRange, removeType, sdkThrows, sdk) ==
    LET relevant == relevantPositions(ps, binRange)
    IN  IF sdkThrows
        THEN [threw |-> TRUE, message |-> "Remove liquidity failed: SDK error"]
        ELSE IF Len(relevant) = 0
        THEN [threw |-> TRUE,
              message |-> "Remove liquidity failed: No positions found in the specified range"]
        ELSE [threw |-> FALSE,
              sdkRequest |-> [maxPositionList |-> maxPositionList(relevant, binRange),
                              type |-> removeType],
              transactions |-> allTxs(sdk),
              removedPositions |-> relevant]

\* the totals with the remove type left out of the test
RECURSIVE estimatedTotalUngated(_, _, _, _, _)
estimatedTotalUngated(ps, binRange, removeType, side, k) ==
    IF k = 0 THEN number(0)
    ELSE LET rest == estimatedTotalUngated(ps, binRange, removeType, side, k - 1)
         IN  IF overlaps(ps[k], binRange)
             THEN numAdd(rest, parseFloat(IF side = RemoveX THEN ps[k].totalLiquidityX
                                          ELSE ps[k].totalLiquidityY))
             ELSE rest

\* lines 348-361: totalX (side = RemoveX) or totalY (side = RemoveY) after the
\* first k positions
RECURSIVE estimatedTotal(_, _, _, _, _)
estimatedTotal(ps, binRange, removeType, side, k) ==
    IF k = 0 THEN number(0)
    ELSE LET rest == estimatedTotal(ps, binRange, removeType, side, k - 1)
         IN  IF overlaps(ps[k], binRange) /\ removeType \in {RemoveBoth, side}
             THEN numAdd(rest, parseFloat(IF side = RemoveX THEN ps[k].totalLiquidityX
                                          ELSE ps[k].totalLiquidityY))
             ELSE rest

\* lines 341-367
calculateEstimatedRemoval(ps, binRange, removeType) ==
    [estimatedX |-> numberToString(estimatedTotal(ps, binRange, removeType, RemoveX, Len(ps))),
     estimatedY |-> numberToString(estimatedTotal(ps, binRange, removeType, RemoveY, Len(ps)))]

\* RemoveLiquidityInterface lines 72-81: the filteredPositions effect
filteredPositionsEffect(loaded, removeMode, binRangeStart, binRangeEnd) ==
    IF removeMode = "partial" /\ Len(loaded) > 0
    THEN relevantPositions(loaded, <<binRangeStart, binRangeEnd>>)
    ELSE loaded

RemoveModes == {"partial", "complete"}

RemoveIdle ==
    /\ positions = <<>>
    /\ call = [op |-> "none"]

RemoveInit ==
    /\ positions \in PositionLists
    /\ call = [op |-> "none"]

\* a caller invoking removeLiquidityFromRange on the positions
RemoveLiquidityFromRange ==
    \E binRange \in BinRanges, removeType \in RemoveLiquidityTypes,
       sdkThrows \in BOOLEAN, sdk \in SdkResults :
        /\ call.op = "none"
        /\ sdkThrows => sdk = [txCreateAccount |-> FALSE, txs |-> 1, txCloseAccount |-> FALSE]
        /\ call' = [op |-> "removeLiquidityFromRange", binRange |-> binRange,
                    removeType |-> removeType,
                    result |-> removeLiquidityFromRange(positions, binRange, removeType,
                                                        sdkThrows, sdk)]
        /\ UNCHANGED <<positions, distVars, addFormVars, positionVars, validateVars, binVars, retryVars, poolVars, liquidityVars, removeFormVars>>

\* a caller invoking calculateEstimatedRemoval on the positions
CalculateEstimatedRemoval ==
    \E binRange \in BinRanges, removeType \in RemoveLiquidityTypes :
        /\ call.op = "none"
        /\ call' = [op |-> "calculateEstimatedRemoval", binRange |-> binRange,
                    removeType |-> removeType,
                    result |-> calculateEstimatedRemoval(positions, binRange, removeType)]
        /\ UNCHANGED <<positions, distVars, addFormVars, positionVars, validateVars, binVars, retryVars, poolVars, liquidityVars, removeFormVars>>

\* the form's filter effect run on the positions as userPositions
FilterPositionsEffect ==
    \E binRange \in BinRanges, removeMode \in RemoveModes :
        /\ call.op = "none"
        /\ call' = [op |-> "filteredPositions", binRange |-> binRange,
                    removeMode |-> removeMode,
                    result |-> filteredPositionsEffect(positions, removeMode,
                                                       binRange[1], binRange[2])]
        /\ UNCHANGED <<positions, distVars, addFormVars, positionVars, validateVars, binVars, retryVars, poolVars, liquidityVars, removeFormVars>>

----------------------------------------------------------------------------
(* PositionManagementService: the aggregator *)

\* values of the REST API's JSON that may be absent
Undefined == [type |-> "undefined"]
Null == [type |-> "null"]
Num(n) == [type |-> "number", value |-> n]

\* x || d for a number that may be absent
orNumber(x, d) == IF x.type = "number" /\ x.value # 0 THEN x.value ELSE d

\* a >= x for a number a: undefined converts to NaN, null to 0
greaterOrEqual(a, x) ==
    CASE x.type = "number" -> a >= x.value
      [] x.type = "null" -> a >= 0
      [] OTHER -> FALSE

\* the upper comparison left out
lessOrEqualAlways(a, x) == TRUE

\* a <= x for a number a
lessOrEqual(a, x) ==
    CASE x.type = "number" -> a <= x.value
      [] x.type = "null" -> a <= 0
      [] OTHER -> FALSE

\* s || d for an amount; the empty sequence is a missing or empty string
orAmount(s, d) == IF s = <<>> THEN d ELSE s

SolMint == "So11111111111111111111111111111111111111112"
UsdcMint == "EPjFWdd5AufqSSqeM2qN1xzybapC8G4wEGGkZwyTDt1v"

\* TokenService.tokenRegistry: data.tokens of /token-registry.json, which is
\* undefined when the file carries no tokens
LoadedRegistry ==
    [tokens |-> { [address |-> SolMint, symbol |-> "SOL"],
                  [address |-> UsdcMint, symbol |-> "USDC"] }]
Registries == {LoadedRegistry, Undefined}

\* TokenService.getTokenByAddress on a loaded registry
getTokenByAddress(registry, address) ==
    IF \E t \in registry.tokens : t.address = address
    THEN CHOOSE t \in registry.tokens : t.address = address
    ELSE Undefined

\* poolPosition.token_x?.mint_address || ""
mintAddress(poolToken) == IF poolToken = Undefined THEN "" ELSE poolToken.mint_address

\* tokenInfo?.symbol || poolPosition.token_x?.symbol || "Unknown"
symbolOf(tokenInfo, poolToken) ==
    IF tokenInfo # Undefined /\ tokenInfo.symbol # "" THEN tokenInfo.symbol
    ELSE IF poolToken # Undefined /\ poolToken.symbol # "" THEN poolToken.symbol
    ELSE "Unknown"

\* Math.random() in units of 1 / RandomScale
RandomScale == 10000
RandomSamples == {0, RandomScale - 5}

\* Math.random() * 0.8 + 0.2, in units of 1 / RandomScale
mockUtilization(random) == (random * 8 + 2 * RandomScale) \div 10

\* Math.random() * 50 + 10 in percent, for the samples that give a whole number
ApyRandomSamples == {0, RandomScale \div 2}
mockApy(random) == (random * 50) \div RandomScale + 10

\* line 238: binPosition.apy || Math.random() * 50 + 10
apyOrMock(apy, random) == orNumber(apy, mockApy(random))

\* line 204
isInRangeOf(binPosition, poolPosition) ==
    /\ greaterOrEqual(orNumber(poolPosition.active_bin_id, 0), binPosition.bin_id_lower)
    /\ lessOrEqual(orNumber(poolPosition.active_bin_id, 0), binPosition.bin_id_upper)

\* lines 193-253; the lookup throws on an undefined registry and the property
\* reads throw on a null record, and the catch rethrows
convertBinPositionToDetailed(binPosition, poolPosition, registry, random, apyRandom) ==
    IF registry = Undefined \/ binPosition = Null THEN [threw |-> TRUE]
    ELSE LET tokenXInfo == getTokenByAddress(registry, mintAddress(poolPosition.token_x))
             tokenYInfo == getTokenByAddress(registry, mintAddress(poolPosition.token_y))
             activeBinId == orNumber(poolPosition.active_bin_id, 0)
             isInRange == isInRangeOf(binPosition, poolPosition)
         IN  [threw |-> FALSE,
              value |->
                [position |-> binPosition.position_address,
                 poolAddress |-> poolPosition.pair_address,
                 lowerBinId |-> orNumber(binPosition.bin_id_lower, 0),
                 upperBinId |-> orNumber(binPosition.bin_id_upper, 0),
                 activeBinId |-> activeBinId,
                 tokenX |-> [symbol |-> symbolOf(tokenXInfo, poolPosition.token_x),
                             amount |-> orAmount(binPosition.token_x_amount, <<"0">>),
                             usdValue |-> orAmount(binPosition.token_x_usd_value, <<"0">>)],
                 tokenY |-> [symbol |-> symbolOf(tokenYInfo, poolPosition.token_y),
                             amount |-> orAmount(binPosition.token_y_amount, <<"0">>),
                             usdValue |-> orAmount(binPosition.token_y_usd_value, <<"0">>)],
                 totalValue |-> orAmount(binPosition.total_usd_value, <<"0">>),
                 feesEarned |-> [tokenX |-> orAmount(binPosition.fees_earned_x, <<"0">>),
                                 tokenY |-> orAmount(binPosition.fees_earned_y, <<"0">>),
                                 totalUsd |-> orAmount(binPosition.total_fees_usd, <<"0">>)],
                 performance |-> [apy |-> Num(apyOrMock(binPosition.apy, apyRandom))],
                 isInRange |-> isInRange,
                 utilizationRate |-> IF isInRange THEN mockUtilization(random) ELSE 0]]

\* the value of one Math.random() call; a call the code does not make has none
draw(rnd, slot) == IF slot \in DOMAIN rnd THEN rnd[slot] ELSE 0

\* lines 125-138: one pool of the loop; a rejected fetchBinPositions or a
\* rejected conversion (Promise.all) is caught and the pool adds nothing
poolDetailedPositions(poolPos, registry, rnd, i) ==
    LET converted ==
            Tuple([k \in 1..Len(poolPos.bins) |->
                      convertBinPositionToDetailed(poolPos.bins[k], poolPos, registry,
                                                   draw(rnd, <<i, k, "utilization">>),
                                                   draw(rnd, <<i, k, "apy">>))])
    IN  IF poolPos.binsFail \/ \E k \in 1..Len(converted) : converted[k].threw
        THEN <<>>
        ELSE [k \in 1..Len(converted) |-> converted[k].value]

\* lines 121-141: allPositions after the first n pools
RECURSIVE allPositionsAfter(_, _, _, _)
allPositionsAfter(poolPositions, registry, rnd, n) ==
    IF n = 0 THEN <<>>
    ELSE allPositionsAfter(poolPositions, registry, rnd, n - 1)
             \o poolDetailedPositions(poolPositions[n], registry, rnd, n)

\* lines 113-148
getAllUserPositions(poolPositions, registry, poolsFail, rnd) ==
    IF poolsFail
    THEN [threw |-> TRUE,
          message |-> "Failed to fetch positions: Failed to fetch pool positions"]
    ELSE [threw |-> FALSE,
          positions |-> allPositionsAfter(poolPositions, registry, rnd, Len(poolPositions))]

\* lines 256-353; pairInfo is Undefined when getPairAccount rejects
enrichPositionData(position, poolAddress, poolMetadata, registry, pairInfo, random, apyRandom) ==
    IF registry = Undefined \/ pairInfo = Undefined
    THEN [position |-> position.position,
          poolAddress |-> poolAddress,
          lowerBinId |-> position.lowerBinId,
          upperBinId |-> position.upperBinId,
          tokenX |-> [symbol |-> "Unknown", amount |-> <<"0">>],
          tokenY |-> [symbol |-> "Unknown", amount |-> <<"0">>],
          totalValue |-> <<"0">>,
          feesEarned |-> [tokenX |-> <<"0">>, tokenY |-> <<"0">>],
          performance |-> [apy |-> Undefined],
          isInRange |-> FALSE,
          utilizationRate |-> 0]
    ELSE LET tokenXInfo == getTokenByAddress(registry, poolMetadata.tokenX)
             tokenYInfo == getTokenByAddress(registry, poolMetadata.tokenY)
             activeBinId == pairInfo.activeId
             isInRange == activeBinId >= position.lowerBinId
                              /\ activeBinId <= position.upperBinId
         IN  [position |-> position.position,
              poolAddress |-> poolAddress,
              lowerBinId |-> position.lowerBinId,
              upperBinId |-> position.upperBinId,
              activeBinId |-> activeBinId,
              tokenX |-> [symbol |-> symbolOf(tokenXInfo, Undefined),
                          amount |-> <<"0">>, usdValue |-> <<"0">>],
              tokenY |-> [symbol |-> symbolOf(tokenYInfo, Undefined),
                          amount |-> <<"0">>, usdValue |-> <<"0">>],
              totalValue |-> <<"0">>,
              feesEarned |-> [tokenX |-> <<"0">>, tokenY |-> <<"0">>, totalUsd |-> <<"0">>],
              performance |-> [apy |-> Num(mockApy(apyRandom))],
              isInRange |-> isInRange,
              utilizationRate |-> IF isInRange THEN mockUtilization(random) ELSE 0]

\* the data of the REST API
JsBinIds == {Undefined, Null} \cup { Num(b) : b \in BinIds }
ActiveBinIds == {Undefined} \cup { Num(b) : b \in BinIds }

\* token_x and token_y of a pool record: registered mints, unregistered mints
\* with and without a symbol of their own, no token objects at all
PoolTokens ==
    { <<[mint_address |-> SolMint, symbol |-> "SOL"],
        [mint_address |-> UsdcMint, symbol |-> "USDC"]>>,
      <<[mint_address |-> "MintQ", symbol |-> "QQQ"],
        [mint_address |-> UsdcMint, symbol |-> ""]>>,
      <<[mint_address |-> "MintQ", symbol |-> ""], Undefined>>,
      <<Undefined, Undefined>> }

PoolAddresses == <<"A", "B", "C", "D">>
PositionAddresses ==
    <<(<<"A1", "A2">>), (<<"B1", "B2">>), (<<"C1", "C2">>), (<<"D1", "D2">>)>>
UsdValues == <<(<<"1", "0">>), (<<>>)>>

BinRecord(i, k, lower, upper, apy) ==
    [position_address |-> PositionAddresses[i][k],
     bin_id_lower |-> lower, bin_id_upper |-> upper, apy |-> apy,
     token_x_amount |-> UsdValues[k], token_y_amount |-> UsdValues[k],
     token_x_usd_value |-> UsdValues[k], token_y_usd_value |-> UsdValues[k],
     fees_earned_x |-> UsdValues[k], fees_earned_y |-> UsdValues[k],
     total_usd_value |-> UsdValues[k], total_fees_usd |-> UsdValues[k]]

PoolRecord(i, active, tokens, binsFail, bins) ==
    [pair_id |-> PoolAddresses[i], pair_address |-> PoolAddresses[i],
     active_bin_id |-> active, token_x |-> tokens[1], token_y |-> tokens[2],
     binsFail |-> binsFail, bins |-> bins]

\* binPosition.apy: not reported, reported as 0, reported as 25 percent
ReportedApys == {Undefined, Num(0), Num(25)}

\* one pool with one record, over every combination of bin ids
SingleRecordPools ==
    { <<PoolRecord(1, active, tokens, FALSE, <<BinRecord(1, 1, lower, upper, apy)>>)>> :
        active \in ActiveBinIds, tokens \in PoolTokens,
        lower \in JsBinIds, upper \in JsBinIds, apy \in ReportedApys }

\* the records of pool i in the lists of several pools: a record in range of
\* active bin 1, a record out of range, a null entry
SampleBins(i) ==
    LET inRange == BinRecord(i, 1, Num(0), Num(MaxBinId), Num(25))
        outOfRange == BinRecord(i, 2, Num(0), Num(0), Num(0))
    IN  { <<>>, <<inRange>>, <<inRange, outOfRange>>,
          <<Null>>, <<inRange, Null>>, <<Null, outOfRange>> }

SamplePools(i) ==
    { PoolRecord(i, Num(1), tokens, FALSE, bins) :
        tokens \in { t \in PoolTokens : t[1] = t[2] \/ t[1].symbol = "SOL" },
        bins \in SampleBins(i) }
      \cup { PoolRecord(i, Num(1), <<Undefined, Undefined>>, TRUE, <<>>) }

SamplePoolLists ==
    UNION { { ps \in [1..n -> UNION { SamplePools(i) : i \in 1..n }] :
                \A i \in 1..n : ps[i] \in SamplePools(i) } :
            n \in 0..MaxPools }

PoolLists == SingleRecordPools \cup SamplePoolLists

\* the Math.random() calls of the conversions: one for the utilization of a
\* record in range, one for the APY of a record that reports none
RecordSlots(poolPositions) ==
    LET records == { <<i, k>> \in (1..Len(poolPositions)) \X (1..2) :
                        /\ k <= Len(poolPositions[i].bins)
                        /\ poolPositions[i].bins[k] # Null }
        bin(r) == poolPositions[r[1]].bins[r[2]]
    IN  { <<r[1], r[2], "utilization">> :
            r \in { r \in records : isInRangeOf(bin(r), poolPositions[r[1]]) } }
          \cup { <<r[1], r[2], "apy">> :
                   r \in { r \in records : orNumber(bin(r).apy, 0) = 0 } }

\* the values the calls may return
Draws(slots) ==
    { rnd \in [slots -> RandomSamples \cup ApyRandomSamples] :
        \A slot \in slots :
            rnd[slot] \in (IF slot[3] = "apy" THEN ApyRandomSamples ELSE RandomSamples) }

PositionsIdle ==
    /\ pools = <<>>
    /\ detailed = <<>>
    /\ pmCall = [op |-> "none"]

PositionsInit ==
    /\ pools \in PoolLists
    /\ detailed = <<>>
    /\ pmCall = [op |-> "none"]

\* the positions page loading the wallet's positions
GetAllUserPositions ==
    \E registry \in Registries, poolsFail \in BOOLEAN,
       rnd \in Draws(RecordSlots(pools)) :
        /\ pmCall.op = "none"
        /\ pmCall' = [op |-> "getAllUserPositions",
                      registryLoaded |-> registry # Undefined,
                      poolsFail |-> poolsFail,
                      result |-> getAllUserPositions(pools, registry, poolsFail, rnd)]
        /\ UNCHANGED <<pools, detailed, distVars, addFormVars, removeVars, validateVars, binVars, retryVars, poolVars, liquidityVars, removeFormVars>>

\* a caller invoking enrichPositionData; it reads nothing of the REST data and
\* is exercised from the state without pools
EnrichPositionData ==
    \E lower \in BinIds, upper \in BinIds, registry \in Registries,
       pairInfo \in {Undefined} \cup { [activeId |-> a] : a \in BinIds },
       tokenX \in {SolMint, "MintQ"}, random \in RandomSamples,
       apyRandom \in ApyRandomSamples :
        LET position == [position |-> "P1", positionMint |-> "P1",
                         lowerBinId |-> lower, upperBinId |-> upper]
        IN  /\ pmCall.op = "none"
            /\ pools = <<>>
            /\ pmCall' = [op |-> "enrichPositionData",
                          position |-> position, pairInfo |-> pairInfo,
                          registryLoaded |-> registry # Undefined,
                          result |-> enrichPositionData(position, "A",
                                         [tokenX |-> tokenX, tokenY |-> UsdcMint],
                                         registry, pairInfo, random, apyRandom)]
            /\ UNCHANGED <<pools, detailed, distVars, addFormVars, removeVars, validateVars, binVars, retryVars, poolVars, liquidityVars, removeFormVars>>

----------------------------------------------------------------------------
(* PositionManagementService: the portfolio summary and the pool groups *)

\* lines 367-369 and 456-458: the reducer's addend
valueOf(pos) == parseFloat(orAmount(pos.totalValue, <<"0">>))

\* lines 371-373 and 460-462
feesOf(pos) == parseFloat(orAmount(pos.feesEarned.totalUsd, <<"0">>))

\* the mean in place of the sum
RECURSIVE centsOfValues(_, _)
centsOfValues(ps, k) ==
    IF k = 0 THEN 0 ELSE centsOfValues(ps, k - 1) + valueOf(ps[k]).cents

meanOfValues(ps, k) ==
    IF k = 0 THEN number(0) ELSE number(centsOfValues(ps, k) \div k)

\* reduce((sum, pos) => sum + parseFloat(pos.totalValue || "0"), 0)
RECURSIVE sumOfValues(_, _)
sumOfValues(ps, k) ==
    IF k = 0 THEN number(0) ELSE numAdd(sumOfValues(ps, k - 1), valueOf(ps[k]))

\* reduce((sum, pos) => sum + parseFloat(pos.feesEarned.totalUsd || "0"), 0)
RECURSIVE sumOfFees(_, _)
sumOfFees(ps, k) ==
    IF k = 0 THEN number(0) ELSE numAdd(sumOfFees(ps, k - 1), feesOf(ps[k]))

\* lines 376-378: the APYs of the first k positions that are not undefined
RECURSIVE validApys(_, _)
validApys(ps, k) ==
    IF k = 0 THEN <<>>
    ELSE IF ps[k].performance.apy # Undefined
         THEN Append(validApys(ps, k - 1), ps[k].performance.apy.value)
         ELSE validApys(ps, k - 1)

\* reduce((sum, apy) => sum + apy, 0) over whole numbers
RECURSIVE sumOfApys(_, _)
sumOfApys(apys, k) == IF k = 0 THEN 0 ELSE sumOfApys(apys, k - 1) + apys[k]

\* sum / count on Numbers: a whole number when the division is exact, the
\* nearest binary64 value otherwise
quotient(sum, count) ==
    IF sum % count = 0 THEN sum \div count ELSE DoubleDiv(sum, count)

\* lines 375-381
averageApy(ps) ==
    LET apys == validApys(ps, Len(ps))
    IN  IF Len(apys) > 0 THEN Num(quotient(sumOfApys(apys, Len(apys)), Len(apys)))
        ELSE Undefined

\* lines 356-410, without the random performanceData
getPortfolioSummary(ps) ==
    LET positionsInRange == Cardinality({ k \in 1..Len(ps) : ps[k].isInRange })
    IN  [totalPositions |-> Len(ps),
         totalValueUsd |-> toFixed2(sumOfValues(ps, Len(ps))),
         totalFeesEarnedUsd |-> toFixed2(sumOfFees(ps, Len(ps))),
         averageApy |-> averageApy(ps),
         activePools |-> Cardinality({ ps[k].poolAddress : k \in 1..Len(ps) }),
         positionsInRange |-> positionsInRange,
         positionsOutOfRange |-> Len(ps) - positionsInRange]

\* Array.prototype.filter: the positions of one pool, in input order
RECURSIVE positionsOfPool(_, _, _)
positionsOfPool(ps, poolAddress, k) ==
    IF k = 0 THEN <<>>
    ELSE IF ps[k].poolAddress = poolAddress
         THEN Append(positionsOfPool(ps, poolAddress, k - 1), ps[k])
         ELSE positionsOfPool(ps, poolAddress, k - 1)

\* lines 438-444: the keys of the Map, in insertion order
RECURSIVE poolKeys(_, _)
poolKeys(ps, k) ==
    IF k = 0 THEN <<>>
    ELSE LET before == poolKeys(ps, k - 1)
         IN  IF \E j \in 1..Len(before) : before[j] = ps[k].poolAddress
             THEN before
             ELSE Append(before, ps[k].poolAddress)

\* lines 449-484: the group of one pool
PoolPositionGroup(ps, poolAddress) ==
    LET poolPositions == positionsOfPool(ps, poolAddress, Len(ps))
    IN  [poolAddress |-> poolAddress,
         positions |-> poolPositions,
         combinedValue |-> toFixed2(sumOfValues(poolPositions, Len(poolPositions))),
         combinedFees |-> toFixed2(sumOfFees(poolPositions, Len(poolPositions))),
         positionCount |-> Len(poolPositions)]

\* the comparator of line 488 with its operands exchanged
RECURSIVE insertAscending(_, _)
insertAscending(sorted, g) ==
    IF sorted = <<>> THEN <<g>>
    ELSE IF parseFloat(sorted[1].combinedValue).cents <= parseFloat(g.combinedValue).cents
         THEN <<sorted[1]>> \o insertAscending(Tail(sorted), g)
         ELSE <<g>> \o sorted

\* Array.prototype.sort (stable) by the comparator of line 488: g goes after
\* every group whose combinedValue is not smaller
RECURSIVE insertDescending(_, _)
insertDescending(sorted, g) ==
    IF sorted = <<>> THEN <<g>>
    ELSE IF parseFloat(sorted[1].combinedValue).cents >= parseFloat(g.combinedValue).cents
         THEN <<sorted[1]>> \o insertDescending(Tail(sorted), g)
         ELSE <<g>> \o sorted

\* lines 446-488: the groups of the first n keys, sorted
RECURSIVE sortedGroups(_, _, _)
sortedGroups(ps, keys, n) ==
    IF n = 0 THEN <<>>
    ELSE insertDescending(sortedGroups(ps, keys, n - 1), PoolPositionGroup(ps, keys[n]))

\* lines 434-498
groupPositionsByPool(ps) ==
    LET keys == poolKeys(ps, Len(ps))
    IN  sortedGroups(ps, keys, Len(keys))

\* the totalValue, feesEarned.totalUsd and performance.apy of the sample
\* positions; the empty sequence is a missing value
UsdSamples ==
    { <<<<>>, <<"0", ".", "2", "5">>, Undefined>>,
      <<<<"0">>, <<>>, Num(0)>>,
      <<<<"1", "0", "0", ".", "0", "0">>, <<"1", ".", "5", "0">>, Num(25)>>,
      <<<<"5", "0", ".", "5", "0">>, <<"0">>, Undefined>>,
      <<<<"1", "0">>, <<"0", ".", "1", "0">>, Num(10)>>,
      <<<<"2", "0">>, <<"0", ".", "2", "0">>, Num(0)>>,
      <<<<"5">>, <<"0", ".", "0", "5">>, Num(12)>> }

DetailedPosition(k, poolAddress, usd) ==
    [position |-> Mints[k], poolAddress |-> poolAddress,
     totalValue |-> usd[1], feesEarned |-> [totalUsd |-> usd[2]],
     performance |-> [apy |-> usd[3]],
     isInRange |-> usd[1] \in {<<"1", "0">>, <<"5">>, <<>>}]

DetailedLists ==
    UNION { { ps \in [1..n -> UNION { { DetailedPosition(k, a, usd) :
                                          a \in {"A", "B"}, usd \in UsdSamples } :
                                      k \in 1..n }] :
                \A k \in 1..n : ps[k].position = Mints[k] } :
            n \in 0..MaxDetailed }

PortfolioInit ==
    /\ pools = <<>>
    /\ detailed \in DetailedLists
    /\ pmCall = [op |-> "none"]

\* the positions page summarising the positions
GetPortfolioSummary ==
    /\ pmCall.op = "none"
    /\ pmCall' = [op |-> "getPortfolioSummary", result |-> getPortfolioSummary(detailed)]
    /\ UNCHANGED <<pools, detailed, distVars, addFormVars, removeVars, validateVars, binVars, retryVars, poolVars, liquidityVars, removeFormVars>>

\* the positions page grouping the positions
GroupPositionsByPool ==
    /\ pmCall.op = "none"
    /\ pmCall' = [op |-> "groupPositionsByPool", result |-> groupPositionsByPool(detailed)]
    /\ UNCHANGED <<pools, detailed, distVars, addFormVars, removeVars, validateVars, binVars, retryVars, poolVars, liquidityVars, removeFormVars>>

----------------------------------------------------------------------------
(* Bin ids and prices.  A price is kept as the expression the code         *)
(* evaluates, coefficient * Math.pow(base / 10000, exponent), with the     *)
(* coefficient in hundredths; Math.log is read from a table of natural     *)
(* logarithms scaled by 10^9.                                              *)

CenterBinId == 8388608
BIN_STEP == 20

\* coefficient * Math.pow(base / 10000, exponent)
PowPrice(coefficient, base, exponent) ==
    [coefficient |-> coefficient, base |-> base, exponent |-> exponent]

\* Math.pow(1.0001, activeId - 8388608)
ratePrice(activeId) == PowPrice(100, 10001, activeId - CenterBinId)

\* bin steps of the pools, in basis points
BinSteps == {1, 10, 25, 100}

\* Math.log(b / 10000) * 10^9 for the bases 1 + binStep / 10000
LogBase(b) ==
    CASE b = 10001 -> 99995
      [] b = 10010 -> 999500
      [] b = 10020 -> 1998003
      [] b = 10025 -> 2496880
      [] b = 10100 -> 9950331

\* metadata.binStep || feeRate || 10, feeRate = tradeFee || feeBPS || 0
analyticsBinStep(metadata) ==
    orNumber(metadata.binStep, orNumber(metadata.tradeFee, 10))

\* Math.floor(Math.log(ratio) / Math.log(1 + binStep / 10000)): the values a
\* build can produce.  Math.pow and Math.log are approximations, so a quotient
\* that is a whole number k other than 0 comes out just below or just above k.
floorLogRatio(ratio, binStep) ==
    LET numerator == ratio.exponent * LogBase(ratio.base)
        denominator == LogBase(10000 + binStep)
        q == numerator \div denominator
    IN  IF numerator = 0 THEN {0}
        ELSE IF numerator % denominator = 0 THEN {q - 1, q}
        ELSE {q}

\* metadata.activeBinId || metadata.activeId || (8388608 + Math.floor(...))
estimatedActiveBinIds(metadata, ratio) ==
    IF orNumber(metadata.activeBinId, 0) # 0 THEN {metadata.activeBinId.value}
    ELSE IF orNumber(metadata.activeId, 0) # 0 THEN {metadata.activeId.value}
    ELSE {CenterBinId + k : k \in floorLogRatio(ratio, analyticsBinStep(metadata))}

\* pool metadata of the analytics fetch: the bin step, no stored active bin
AnalyticsMetadata(binStep) ==
    [binStep |-> binStep, tradeFee |-> Undefined,
     activeBinId |-> Undefined, activeId |-> Undefined]

ConversionBinIds == (CenterBinId - MaxPriceOffset)..(CenterBinId + MaxPriceOffset)

BinsIdle == binCall = [op |-> "none"]

\* createPoolWithSDK: the rate price of the pool's active id
CreatePoolWithSDK ==
    /\ binCall.op = "none"
    /\ \E activeId \in ConversionBinIds, binStep \in BinSteps :
        binCall' = [op |-> "createPoolWithSDK", activeId |-> activeId,
                    binStep |-> binStep, ratePrice |-> ratePrice(activeId)]
    /\ UNCHANGED <<distVars, addFormVars, removeVars, positionVars, validateVars, retryVars, poolVars, liquidityVars, removeFormVars>>

\* getPoolAnalytics on the created pool, whose reserves stand in the ratio of
\* the rate price and whose metadata holds no active bin
GetPoolAnalytics ==
    /\ binCall.op = "createPoolWithSDK"
    /\ \E stored \in {Num(binCall.binStep), Undefined, Num(0)} :
       \E id \in estimatedActiveBinIds(AnalyticsMetadata(stored), binCall.ratePrice) :
        binCall' = [op |-> "getPoolAnalytics", activeId |-> binCall.activeId,
                    metadata |-> AnalyticsMetadata(stored),
                    binStep |-> analyticsBinStep(AnalyticsMetadata(stored)),
                    poolBinStep |-> binCall.binStep,
                    currentPrice |-> binCall.ratePrice, activeBinId |-> id]
    /\ UNCHANGED <<distVars, addFormVars, removeVars, positionVars, validateVars, retryVars, poolVars, liquidityVars, removeFormVars>>

----------------------------------------------------------------------------
(* Bin series.  Math.random() is a draw in percent per loop offset; amounts *)
(* are whole units, Math.exp(-0.3 * d) is read from a table in thousandths. *)

AlgorithmicBinRange == 12
fetchBinRange == 20
DistributionBinRange == 10

\* Math.exp(-distanceFromActive * 0.3) * 1000
liquidityFactor(distance) ==
    <<1000, 741, 549, 407, 301, 223, 165, 122, 91, 67, 50,
      37, 27, 20, 15, 11, 8, 6, 5, 3, 2>>[distance + 1]

\* Math.random() * 100 of the draws the model takes
BinRandomSamples == {0, 98}

\* one draw per loop offset: the same draw everywhere but at one offset at most
OffsetDraws(h) ==
    LET constant(r) == [i \in (-h)..h |-> r]
    IN  {constant(r) : r \in BinRandomSamples}
        \cup {[constant(r) EXCEPT ![i] = s] :
                r \in BinRandomSamples, s \in BinRandomSamples, i \in (-h)..h}

ConstantDraws(h) == {[i \in (-h)..h |-> r] : r \in BinRandomSamples}

\* the stable ascending place of a bin in a list sorted by binId
insertByBinId(sorted, bin) ==
    LET k == Cardinality({j \in 1..Len(sorted) : sorted[j].binId <= bin.binId})
    IN  SubSeq(sorted, 1, k) \o <<bin>> \o SubSeq(sorted, k + 1, Len(sorted))

\* binData.sort((a, b) => a.binId - b.binId)
RECURSIVE sortByBinId(_)
sortByBinId(bins) ==
    IF bins = <<>> THEN <<>>
    ELSE insertByBinId(sortByBinId(SubSeq(bins, 1, Len(bins) - 1)), bins[Len(bins)])

DefaultPoolMetadata ==
    [tokenX |-> [symbol |-> "SOL"], tokenY |-> [symbol |-> "USDC"],
     binStep |-> BIN_STEP, poolAddress |-> "algorithmic"]

\* generateAlgorithmicBinData(centerBinId?, poolMetadata?); totalSupply, the
\* string of totalLiquidity, is left out
generateAlgorithmicBinData(centerBinId, poolMetadata, amountRandom, jitterRandom) ==
    LET activeBinId == orNumber(centerBinId, CenterBinId)
        defaultPoolMetadata ==
            IF poolMetadata = Undefined THEN DefaultPoolMetadata ELSE poolMetadata
        bin(i) ==
            LET binId == activeBinId + i
                baseAmount == 50000 + amountRandom[i] * 1000
                reserveX ==
                    (((baseAmount * liquidityFactor(Abs(i))) \div 1000)
                        * (50 + jitterRandom[i] \div 2)) \div 100
                reserveY == (reserveX * 8) \div 10
            IN  [binId |-> binId,
                 price |-> PowPrice(100, 10001, binId - CenterBinId),
                 reserveXAmount |-> reserveX,
                 reserveYAmount |-> reserveY,
                 totalLiquidity |-> reserveX + reserveY,
                 isActive |-> (i = 0),
                 poolMetadata |-> defaultPoolMetadata]
    IN  sortByBinId([j \in 1..(2 * AlgorithmicBinRange + 1) |->
                        bin(j - AlgorithmicBinRange - 1)])

\* the price of the pool's pair in hundredths: 1 unless the quote is a stablecoin
pairPrice(pool, stablecoins) ==
    IF pool.tokenY.symbol \in stablecoins
    THEN CASE pool.tokenX.symbol = "SOL" -> 15000
           [] pool.tokenX.symbol = "SAROS" -> 5
           [] pool.tokenX.symbol = "JUP" -> 120
           [] OTHER -> 1000
    ELSE 100

\* fetchPoolBins(liquidityBookServices, pool) once the metadata fetch has
\* answered poolMetadata (Null when it failed).  totalLiquidity is in
\* millionths; reserveXAmount, a quotient by the price, and utilization are
\* left out
fetchPoolBins(pool, poolMetadata, jitterRandom) ==
    IF poolMetadata = Null THEN Null
    ELSE
    LET activeBinId ==
            orNumber(poolMetadata.activeBinId,
                     orNumber(poolMetadata.activeId, CenterBinId))
        binStep == orNumber(poolMetadata.binStep, orNumber(pool.binStep, 10))
        bin(i) ==
            LET totalLiquidity ==
                    pool.tvl * liquidityFactor(Abs(i)) * (50 + jitterRandom[i] \div 2)
                yRatio == IF i < 0 THEN 2 ELSE 8
            IN  [binId |-> activeBinId + i,
                 price |-> PowPrice(pairPrice(pool, {"USDC", "USDT"}), 10000 + binStep, i),
                 reserveYAmount |-> (totalLiquidity \div 10) * yRatio,
                 totalLiquidity |-> totalLiquidity,
                 isActive |-> (i = 0),
                 poolMetadata |-> [address |-> pool.address,
                                   tokenX |-> pool.tokenX, tokenY |-> pool.tokenY]]
        all == [j \in 1..(2 * fetchBinRange + 1) |-> bin(j - fetchBinRange - 1)]
        processedBins == SelectSeq(all, LAMBDA b : b.totalLiquidity > 1000000)
    IN  [poolAddress |-> pool.address,
         activeBinId |-> activeBinId,
         binStep |-> binStep,
         totalBins |-> Len(processedBins),
         bins |-> processedBins]

\* parseFloat(price.toFixed(6))
toFixed6(price) ==
    [coefficient |-> price.coefficient, base |-> price.base,
     exponent |-> price.exponent, digits |-> 6]

\* Math.round(x / scale) of a non-negative x
roundTo(x, scale) == (2 * x + scale) \div (2 * scale)

\* generateBinDistributionData(pool), baseLiquidity in hundredths; totalSupply
\* and utilization are left out
generateBinDistributionData(pool, xRandom, yRandom) ==
    LET poolTVL == IF pool.tvl # 0 THEN pool.tvl ELSE 50000
        binStep == orNumber(pool.binStep, 10)
        currentPrice == pairPrice(pool, {"USDC", "USDT", "PYUSD"})
        baseLiquidity == poolTVL * 5
        bin(i) ==
            LET share == (baseLiquidity * liquidityFactor(Abs(i))) \div 1000
            IN  [binId |-> CenterBinId + i,
                 price |-> toFixed6(PowPrice(currentPrice, 10000 + binStep, i)),
                 reserveXAmount |-> roundTo(share * (80 + (xRandom[i] * 4) \div 10), 10000),
                 reserveYAmount |-> roundTo(share * (80 + (yRandom[i] * 4) \div 10), 10000),
                 totalLiquidity |-> roundTo(share * 2, 100),
                 isActive |-> (i = 0),
                 poolMetadata |-> [tokenX |-> pool.tokenX, tokenY |-> pool.tokenY,
                                   binStep |-> binStep, poolAddress |-> pool.address]]
    IN  [j \in 1..(2 * DistributionBinRange + 1) |-> bin(j - DistributionBinRange - 1)]

\* getEnhancedBinData: the stored bins of the pool that has bin analytics, or
\* the hand-over to getBinLiquidity when no pool has any
getEnhancedBinData(targetPool) ==
    IF targetPool # Undefined /\ targetPool.binAnalytics # Undefined
    THEN [bins |->
            [j \in 1..Len(targetPool.binAnalytics.binData) |->
                LET bin == targetPool.binAnalytics.binData[j]
                IN  [binId |-> bin.binId,
                     price |-> bin.price,
                     reserveXAmount |-> bin.reserveX,
                     reserveYAmount |-> bin.reserveY,
                     totalLiquidity |-> bin.totalLiquidity,
                     totalSupply |-> bin.totalSupply,
                     isActive |-> bin.isActive,
                     poolMetadata |-> [tokenX |-> targetPool.tokenX,
                                       tokenY |-> targetPool.tokenY,
                                       binStep |-> targetPool.binStep,
                                       poolAddress |-> targetPool.address]]]]
    ELSE [delegated |-> "getBinLiquidity"]

\* the pools of the sample: a pair and a bin step for every TVL
TvlSamples == {0, 5, 100, 20000}

BinPool(pair, tvl) ==
    [address |-> pair[1] \o "/" \o pair[2],
     tokenX |-> [symbol |-> pair[1]], tokenY |-> [symbol |-> pair[2]],
     binStep |-> pair[3], tvl |-> tvl]

BinPools ==
    {BinPool(pair, tvl) :
        pair \in {<<"SOL", "USDC", Num(25)>>, <<"SAROS", "USDT", Num(0)>>,
                  <<"JUP", "PYUSD", Num(100)>>, <<"BONK", "SOL", Num(1)>>},
        tvl \in TvlSamples}

\* PoolMetadata of getBinLiquidity for a pool
PoolMetadataOf(pool) ==
    [tokenX |-> pool.tokenX, tokenY |-> pool.tokenY,
     binStep |-> pool.binStep.value, poolAddress |-> pool.address]

\* what fetchPoolMetadata answers, Null when every retry failed
FetchedMetadata ==
    {Null,
     [activeBinId |-> Undefined, activeId |-> Undefined, binStep |-> Undefined],
     [activeBinId |-> Undefined, activeId |-> Num(CenterBinId - 7), binStep |-> Num(10)],
     [activeBinId |-> Num(CenterBinId + 40), activeId |-> Num(CenterBinId - 7),
      binStep |-> Num(100)]}

\* a bin of enhanced_pools.json
StoredBin(i, isActive) ==
    [binId |-> CenterBinId + i, price |-> PowPrice(100, 10025, i),
     reserveX |-> 10, reserveY |-> 8, totalLiquidity |-> 18,
     totalSupply |-> "18", isActive |-> isActive]

\* the pool getEnhancedBinData finds in enhanced_pools.json
EnhancedPools ==
    {Undefined}
    \cup {[address |-> pool.address, tokenX |-> pool.tokenX, tokenY |-> pool.tokenY,
           binStep |-> pool.binStep.value, binAnalytics |-> analytics] :
            pool \in {p \in BinPools : p.tvl = 100},
            analytics \in {Undefined,
                           [binData |-> <<>>],
                           [binData |-> <<StoredBin(0, TRUE)>>],
                           [binData |-> <<StoredBin(-1, FALSE), StoredBin(0, TRUE),
                                          StoredBin(1, FALSE)>>],
                           [binData |-> <<StoredBin(2, FALSE), StoredBin(3, FALSE)>>]}}

GenerateAlgorithmicBinData ==
    /\ binCall.op = "none"
    /\ \E centerBinId \in {Undefined, Num(0), Num(CenterBinId + 3)},
          poolMetadata \in {Undefined} \cup {PoolMetadataOf(pool) : pool \in BinPools},
          amountRandom \in ConstantDraws(AlgorithmicBinRange),
          jitterRandom \in OffsetDraws(AlgorithmicBinRange) :
        binCall' = [op |-> "generateAlgorithmicBinData",
                    centerBinId |-> centerBinId, poolMetadata |-> poolMetadata,
                    bins |-> generateAlgorithmicBinData(centerBinId, poolMetadata,
                                                        amountRandom, jitterRandom)]
    /\ UNCHANGED <<distVars, addFormVars, removeVars, positionVars, validateVars, retryVars, poolVars, liquidityVars, removeFormVars>>

FetchPoolBins ==
    /\ binCall.op = "none"
    /\ \E pool \in BinPools, poolMetadata \in FetchedMetadata,
          jitterRandom \in OffsetDraws(fetchBinRange) :
        binCall' = [op |-> "fetchPoolBins", pool |-> pool, poolMetadata |-> poolMetadata,
                    result |-> fetchPoolBins(pool, poolMetadata, jitterRandom)]
    /\ UNCHANGED <<distVars, addFormVars, removeVars, positionVars, validateVars, retryVars, poolVars, liquidityVars, removeFormVars>>

GenerateBinDistributionData ==
    /\ binCall.op = "none"
    /\ \E pool \in BinPools, xRandom \in OffsetDraws(DistributionBinRange),
          yRandom \in ConstantDraws(DistributionBinRange) :
        binCall' = [op |-> "generateBinDistributionData", pool |-> pool,
                    bins |-> generateBinDistributionData(pool, xRandom, yRandom)]
    /\ UNCHANGED <<distVars, addFormVars, removeVars, positionVars, validateVars, retryVars, poolVars, liquidityVars, removeFormVars>>

GetEnhancedBinData ==
    /\ binCall.op = "none"
    /\ \E targetPool \in EnhancedPools :
        binCall' = [op |-> "getEnhancedBinData", targetPool |-> targetPool,
                    result |-> getEnhancedBinData(targetPool)]
    /\ UNCHANGED <<distVars, addFormVars, removeVars, positionVars, validateVars, retryVars, poolVars, liquidityVars, removeFormVars>>

----------------------------------------------------------------------------
(* withRetry of the fetch scripts: fetch_pools.js and the enhanced pool     *)
(* fetcher rethrow after the last attempt, fetch_bins.js returns null.      *)

MAX_RETRIES == 4
POOLS_MAX_RETRIES == 3
RETRY_BASE_DELAY_MS == 1000

RetryScripts == {"fetch_pools.js", "fetch_pools_enhanced.js", "fetch_bins.js"}

\* the delay test that lets one more retry through
retriesExhaustedLate(attempt, maxRetries) == attempt > maxRetries + 1

\* attempt > maxRetries
retriesExhausted(attempt, maxRetries) == attempt > maxRetries

\* RETRY_BASE_DELAY_MS * Math.pow(2, attempt - 1)
retryDelay(attempt) == RETRY_BASE_DELAY_MS * Pow2(attempt - 1)

\* what fn resolves to and what it rejects with
FnValue == [type |-> "value"]
FnError == [type |-> "error"]

\* what the catch block does once the attempts are used up
finalFailure(script) ==
    IF script = "fetch_bins.js" THEN [pc |-> "returned", result |-> Null]
    ELSE [pc |-> "threw", result |-> FnError]

\* maxRetries = MAX_RETRIES, the default of the script
maxRetriesOf(script, maxRetries) ==
    IF maxRetries = Undefined
    THEN IF script = "fetch_pools.js" THEN POOLS_MAX_RETRIES ELSE MAX_RETRIES
    ELSE maxRetries.value

RetryIdle == retry = [pc |-> "none"]

\* withRetry(fn, maxRetries) entered: attempt = 0, fn not yet called
RetryInit ==
    \E script \in RetryScripts,
       maxRetries \in {Undefined} \cup {Num(n) : n \in 0..MaxRetryArg} :
        retry = [pc |-> "try", script |-> script,
                 maxRetries |-> maxRetriesOf(script, maxRetries),
                 attempt |-> 0, calls |-> 0, delays |-> <<>>, result |-> Undefined]

\* try { ... fn() }: the call is made
CallFn ==
    /\ retry.pc = "try"
    /\ retry' = [retry EXCEPT !.pc = "await", !.calls = @ + 1]
    /\ UNCHANGED <<distVars, addFormVars, removeVars, positionVars, validateVars, binVars, poolVars, liquidityVars, removeFormVars>>

\* return await fn(): the promise resolves
FnResolves ==
    /\ retry.pc = "await"
    /\ retry' = [retry EXCEPT !.pc = "returned", !.result = FnValue]
    /\ UNCHANGED <<distVars, addFormVars, removeVars, positionVars, validateVars, binVars, poolVars, liquidityVars, removeFormVars>>

\* catch (err): the promise rejects
FnRejects ==
    /\ retry.pc = "await"
    /\ LET attempt == retry.attempt + 1
       IN  IF retriesExhausted(attempt, retry.maxRetries)
           THEN retry' = [retry EXCEPT !.attempt = attempt,
                                       !.pc = finalFailure(retry.script).pc,
                                       !.result = finalFailure(retry.script).result]
           ELSE retry' = [retry EXCEPT !.attempt = attempt, !.pc = "sleep",
                                       !.delays = Append(@, retryDelay(attempt))]
    /\ UNCHANGED <<distVars, addFormVars, removeVars, positionVars, validateVars, binVars, poolVars, liquidityVars, removeFormVars>>

\* await sleep(delay): the timer fires
SleepElapses ==
    /\ retry.pc = "sleep"
    /\ retry' = [retry EXCEPT !.pc = "try"]
    /\ UNCHANGED <<distVars, addFormVars, removeVars, positionVars, validateVars, binVars, poolVars, liquidityVars, removeFormVars>>

----------------------------------------------------------------------------
(* fetchAllPools and its module cache.  A call is a sequence of steps, one  *)
(* per await; calls of several components interleave at the awaits.        *)

CACHE_DURATION == 60000

PoolModules == {"pools.ts", "pools.ts (local data)"}

\* the instants Date.now() takes
Instants == {1000000, 1000001, 1059999, 1060000, 1060001, 1120001}

\* the pool lists a loader can hand back
LoadedPoolLists == {<<"A">>, <<"A", "B">>}

\* what an awaited loader does: it throws, or resolves to a list
LoaderOutcomes ==
    {[threw |-> TRUE]} \cup {[threw |-> FALSE, pools |-> l] : l \in LoadedPoolLists \cup {<<>>}}

\* what fetch('/pools.json') and response.json() do: they throw, the response
\* is not ok, or the document has a pools list or none
PoolsJsonOutcomes ==
    {[threw |-> TRUE], [threw |-> FALSE, ok |-> FALSE]}
    \cup {[threw |-> FALSE, ok |-> TRUE, pools |-> l] : l \in LoadedPoolLists \cup {<<>>}}

FetchCallers == {1, 2}

\* allPools.length > 0 && (now - lastFetch) < CACHE_DURATION
cacheFresh(cached, fetchedAt, now) ==
    Len(cached) > 0 /\ (now - fetchedAt) < CACHE_DURATION

PoolCacheIdle ==
    /\ poolModule = "pools.ts"
    /\ poolClock = 1000000
    /\ allPools = <<>>
    /\ lastFetch = 0
    /\ fetchCalls = [c \in FetchCallers |-> [pc |-> "idle"]]

PoolCacheInit ==
    /\ poolModule \in PoolModules
    /\ poolClock = 1000000
    /\ allPools = <<>>
    /\ lastFetch = 0
    /\ fetchCalls = [c \in FetchCallers |-> [pc |-> "idle"]]

\* a call that has returned
returnedCall(c, result, source) ==
    [pc |-> "done", now |-> fetchCalls[c].now, seen |-> fetchCalls[c].seen,
     result |-> result, source |-> source]

\* time passes
ClockAdvances ==
    /\ poolModule \in PoolModules
    /\ \E t \in Instants : t > poolClock /\ poolClock' = t
    /\ UNCHANGED <<poolModule, allPools, lastFetch, fetchCalls, liquidityVars, removeFormVars>>
    /\ UNCHANGED <<distVars, addFormVars, removeVars, positionVars, validateVars, binVars, retryVars, liquidityVars, removeFormVars>>

\* fetchAllPools up to its first await
FetchAllPools(c) ==
    /\ fetchCalls[c].pc = "idle"
    /\ LET now == poolClock
           seen == [allPools |-> allPools, lastFetch |-> lastFetch]
       IN  IF cacheFresh(allPools, lastFetch, now)
           THEN fetchCalls' = [fetchCalls EXCEPT ![c] =
                    [pc |-> "done", now |-> now, seen |-> seen,
                     result |-> allPools, source |-> "cache"]]
           ELSE fetchCalls' = [fetchCalls EXCEPT ![c] =
                    [pc |-> IF poolModule = "pools.ts" THEN "loadEnhancedPools"
                            ELSE "loadRealPools",
                     now |-> now, seen |-> seen]]
    /\ UNCHANGED <<poolModule, poolClock, allPools, lastFetch, liquidityVars, removeFormVars>>
    /\ UNCHANGED <<distVars, addFormVars, removeVars, positionVars, validateVars, binVars, retryVars, liquidityVars, removeFormVars>>

\* pools.ts: await loadEnhancedPools() settles
LoadEnhancedPoolsSettles(c) ==
    /\ fetchCalls[c].pc = "loadEnhancedPools"
    /\ \E outcome \in LoaderOutcomes :
        IF outcome.threw
        THEN /\ fetchCalls' = [fetchCalls EXCEPT ![c] = returnedCall(c, <<>>, "error")]
             /\ UNCHANGED <<allPools, lastFetch, liquidityVars, removeFormVars>>
        ELSE IF Len(outcome.pools) > 0
        THEN /\ allPools' = outcome.pools
             /\ lastFetch' = fetchCalls[c].now
             /\ fetchCalls' = [fetchCalls EXCEPT ![c] =
                    returnedCall(c, outcome.pools, "loadEnhancedPools")]
        ELSE /\ fetchCalls' = [fetchCalls EXCEPT ![c].pc = "loadRealPools"]
             /\ UNCHANGED <<allPools, lastFetch, liquidityVars, removeFormVars>>
    /\ UNCHANGED <<poolModule, poolClock, liquidityVars, removeFormVars>>
    /\ UNCHANGED <<distVars, addFormVars, removeVars, positionVars, validateVars, binVars, retryVars, liquidityVars, removeFormVars>>

\* await loadRealPools() settles: the fallback of pools.ts, the first source
\* of its earlier copy
LoadRealPoolsSettles(c) ==
    /\ fetchCalls[c].pc = "loadRealPools"
    /\ \E outcome \in LoaderOutcomes :
        IF ~outcome.threw /\ Len(outcome.pools) > 0
        THEN /\ allPools' = outcome.pools
             /\ lastFetch' = fetchCalls[c].now
             /\ fetchCalls' = [fetchCalls EXCEPT ![c] =
                    returnedCall(c, outcome.pools, "loadRealPools")]
        ELSE IF poolModule = "pools.ts"
        THEN /\ fetchCalls' = [fetchCalls EXCEPT ![c] = returnedCall(c, <<>>, "error")]
             /\ UNCHANGED <<allPools, lastFetch, liquidityVars, removeFormVars>>
        ELSE /\ fetchCalls' = [fetchCalls EXCEPT ![c].pc = "pools.json"]
             /\ UNCHANGED <<allPools, lastFetch, liquidityVars, removeFormVars>>
    /\ UNCHANGED <<poolModule, poolClock, liquidityVars, removeFormVars>>
    /\ UNCHANGED <<distVars, addFormVars, removeVars, positionVars, validateVars, binVars, retryVars, liquidityVars, removeFormVars>>

\* the earlier copy: fetch('/pools.json') and response.json() settle
PoolsJsonSettles(c) ==
    /\ fetchCalls[c].pc = "pools.json"
    /\ \E outcome \in PoolsJsonOutcomes :
        IF outcome.threw \/ ~outcome.ok
        THEN /\ fetchCalls' = [fetchCalls EXCEPT ![c] = returnedCall(c, <<>>, "error")]
             /\ UNCHANGED <<allPools, lastFetch, liquidityVars, removeFormVars>>
        ELSE /\ allPools' = outcome.pools
             /\ lastFetch' = fetchCalls[c].now
             /\ fetchCalls' = [fetchCalls EXCEPT ![c] =
                    returnedCall(c, outcome.pools, "pools.json")]
    /\ UNCHANGED <<poolModule, poolClock, liquidityVars, removeFormVars>>
    /\ UNCHANGED <<distVars, addFormVars, removeVars, positionVars, validateVars, binVars, retryVars, liquidityVars, removeFormVars>>

----------------------------------------------------------------------------
(* getBinLiquidity and getEnhancedBinData, which call each other.  The      *)
(* frames below the innermost one only wait for it, so the state is the    *)
(* innermost frame and the number of getBinLiquidity frames, counted up to *)
(* MaxCallDepth.                                                           *)

BIN_CACHE_DURATION == 5 * 60 * 1000

\* enhancedDb.pools.find(p => p.binAnalytics && p.binAnalytics.binData.length > 0)
RECURSIVE findPoolWithBins(_, _)
findPoolWithBins(dbPools, k) ==
    IF k > Len(dbPools) THEN Undefined
    ELSE IF dbPools[k].binAnalytics # Undefined
            /\ Len(dbPools[k].binAnalytics.binData) > 0
    THEN dbPools[k]
    ELSE findPoolWithBins(dbPools, k + 1)

\* what the fetch of enhanced_pools.json does: it throws, answers not ok, or
\* answers a database
EnhancedDbStates ==
    {[threw |-> TRUE], [threw |-> FALSE, ok |-> FALSE]}
    \cup {[threw |-> FALSE, ok |-> TRUE, pools |-> <<>>]}
    \cup {[threw |-> FALSE, ok |-> TRUE, pools |-> <<p>>] : p \in EnhancedPools \ {Undefined}}

\* what loadRealPools does
RealPoolStates ==
    {[threw |-> TRUE], [threw |-> FALSE, pools |-> <<>>]}
    \cup {[threw |-> FALSE, pools |-> <<p>>] : p \in {q \in BinPools : q.tvl = 20000}}

\* cachedBinData && (now - cacheTimestamp) < CACHE_DURATION
binCacheFresh(cached, stampedAt, now) ==
    cached # Null /\ (now - stampedAt) < BIN_CACHE_DURATION

\* getEnhancedBinData() once the fetch has settled: the stored bins, or the
\* call of getBinLiquidity of the fallback and of the catch block
enhancedBinDataOf(db) ==
    IF db.threw \/ ~db.ok THEN [delegated |-> "getBinLiquidity"]
    ELSE getEnhancedBinData(findPoolWithBins(db.pools, 1))

\* getBinLiquidity from the return of getEnhancedBinData on: the list
\* returned and the list cached (Undefined: the cache is left alone)
binLiquidityAfter(enhancedBinData, real, amountRandom, jitterRandom) ==
    IF Len(enhancedBinData) > 0
    THEN [result |-> enhancedBinData, cached |-> [bins |-> enhancedBinData]]
    ELSE IF real.threw \/ Len(real.pools) = 0
    THEN [result |-> <<>>, cached |-> Undefined]
    ELSE LET binData == generateAlgorithmicBinData(Undefined, PoolMetadataOf(real.pools[1]),
                                                   amountRandom, jitterRandom)
         IN  [result |-> binData, cached |-> [bins |-> binData]]

LiquidityIdle ==
    /\ cachedBinData = Null
    /\ cacheTimestamp = 0
    /\ enhancedDb = [threw |-> TRUE]
    /\ realPools = [threw |-> TRUE]
    /\ liquidityCall = [pc |-> "idle", depth |-> 0]

\* the module cache empty, or filled by an earlier call that found stored bins
LiquidityInit ==
    /\ \/ cachedBinData = Null /\ cacheTimestamp = 0
       \/ /\ cachedBinData = [bins |-> getEnhancedBinData(
                 [address |-> "SOL/USDC", tokenX |-> [symbol |-> "SOL"],
                  tokenY |-> [symbol |-> "USDC"], binStep |-> 25,
                  binAnalytics |-> [binData |-> <<StoredBin(0, TRUE)>>]]).bins]
          /\ cacheTimestamp \in {1000000 - BIN_CACHE_DURATION,
                                 1000001 - BIN_CACHE_DURATION, 1000000}
    /\ enhancedDb \in EnhancedDbStates
    /\ realPools \in RealPoolStates
    /\ liquidityCall = [pc |-> "idle", depth |-> 0]

\* the outcome of a getBinLiquidity frame handed down to the caller of the
\* outermost frame: every frame in between caches and returns the same list
liquidityReturns(outcome) ==
    /\ liquidityCall' = [pc |-> "done", depth |-> liquidityCall.depth,
                         result |-> outcome.result]
    /\ IF outcome.cached = Undefined
       THEN UNCHANGED <<cachedBinData, cacheTimestamp, removeFormVars>>
       ELSE cachedBinData' = outcome.cached /\ cacheTimestamp' = poolClock

\* getBinLiquidity is entered, by a component or by getEnhancedBinData: the
\* cache test, then the call of getEnhancedBinData
GetBinLiquidity ==
    /\ liquidityCall.pc \in {"idle", "getBinLiquidity"}
    /\ IF binCacheFresh(cachedBinData, cacheTimestamp, poolClock)
       THEN IF liquidityCall.depth = 0
            THEN /\ liquidityCall' = [pc |-> "done", depth |-> 0,
                                      result |-> cachedBinData.bins]
                 /\ UNCHANGED <<cachedBinData, cacheTimestamp, removeFormVars>>
            ELSE \E amountRandom \in ConstantDraws(AlgorithmicBinRange),
                    jitterRandom \in ConstantDraws(AlgorithmicBinRange) :
                    liquidityReturns(binLiquidityAfter(cachedBinData.bins, realPools,
                                                       amountRandom, jitterRandom))
       ELSE /\ liquidityCall' = [pc |-> "getEnhancedBinData",
                                 depth |-> Min(liquidityCall.depth + 1, MaxCallDepth)]
            /\ UNCHANGED <<cachedBinData, cacheTimestamp, removeFormVars>>
    /\ UNCHANGED <<enhancedDb, realPools, removeFormVars>>
    /\ UNCHANGED <<distVars, addFormVars, removeVars, positionVars, validateVars, binVars, retryVars, poolVars, removeFormVars>>

\* getEnhancedBinData: the fetch of enhanced_pools.json settles
EnhancedFetchSettles ==
    /\ liquidityCall.pc = "getEnhancedBinData"
    /\ LET enhanced == enhancedBinDataOf(enhancedDb)
       IN  IF "bins" \in DOMAIN enhanced
           THEN \E amountRandom \in ConstantDraws(AlgorithmicBinRange),
                   jitterRandom \in ConstantDraws(AlgorithmicBinRange) :
                   liquidityReturns(binLiquidityAfter(enhanced.bins, realPools,
                                                      amountRandom, jitterRandom))
           ELSE /\ liquidityCall' = [liquidityCall EXCEPT !.pc = "getBinLiquidity"]
                /\ UNCHANGED <<cachedBinData, cacheTimestamp, removeFormVars>>
    /\ UNCHANGED <<enhancedDb, realPools, removeFormVars>>
    /\ UNCHANGED <<distVars, addFormVars, removeVars, positionVars, validateVars, binVars, retryVars, poolVars, removeFormVars>>

----------------------------------------------------------------------------
(* RemoveLiquidityInterface: the form.  The wallet stays connected.  The   *)
(* positions loaded by getUserPositions carry "0" amounts, so the          *)
(* estimatedAmounts effect always stores x "0", y "0" and is left out.     *)

\* useWallet(): publicKey.toString()
WalletKey == "So11111111111111111111111111111111111111112"

\* the pool addresses typed into the form
PoolA == "1qbkdrr3z4ryLA7pZykqxvxWPoeifcVKo6ZG9CfkvVE"
PoolB == "EPjFWdd5AufqSSqeM2qN1xzybapC8G4wEGGkZwyTDt1v"
PoolAddressInputs == {"", PoolA, PoolB}

\* parseInt(e.target.value) || 0 of the two bin range fields
BinRangeInputs == {0, 2}

\* what dlmmService.getUserPositions holds for the wallet in each pool
WalletPositions(poolAddress) ==
    CASE poolAddress = PoolA -> <<UserPosition(1, 0, 0, FALSE), UserPosition(2, 2, 2, FALSE)>>
      [] poolAddress = PoolB -> <<UserPosition(3, 1, 1, FALSE)>>
      [] OTHER -> <<>>

\* Math.min() and Math.max() of no arguments are Infinity and -Infinity
Infinity == 999999999

\* selectedPositions.includes(positionMint)
includes(selectedPositions, positionMint) ==
    \E j \in 1..Len(selectedPositions) : selectedPositions[j] = positionMint

\* filteredPositions.map(p => p.positionMint)
positionMints(ps) == [k \in 1..Len(ps) |-> ps[k].positionMint]

\* userPositions.filter(pos => formData.selectedPositions.includes(pos.positionMint))
selectedPosData(loaded, selectedPositions) ==
    SelectSeq(loaded, LAMBDA pos : includes(selectedPositions, pos.positionMint))

RECURSIVE minLowerBinId(_, _)
minLowerBinId(ps, k) ==
    IF k = 0 THEN Infinity ELSE Min(minLowerBinId(ps, k - 1), ps[k].lowerBinId)

RECURSIVE maxUpperBinId(_, _)
maxUpperBinId(ps, k) ==
    IF k = 0 THEN -Infinity ELSE Max(maxUpperBinId(ps, k - 1), ps[k].upperBinId)

\* lines 144-156: the request of validateAndRemoveLiquidity; poolTokens is
\* never set, so poolTokens.tokenX?.address || "" is ""
removeLiquidityRequest(fd, loaded, poolTokens) ==
    LET chosen == selectedPosData(loaded, fd.selectedPositions)
    IN  [poolAddress |-> fd.poolAddress,
         positions |-> chosen,
         binRange |-> IF fd.removeMode = "partial"
                      THEN <<fd.binRangeStart, fd.binRangeEnd>>
                      ELSE <<minLowerBinId(chosen, Len(chosen)),
                             maxUpperBinId(chosen, Len(chosen))>>,
         removeType |-> fd.removeType,
         walletPublicKey |-> WalletKey,
         tokenXMint |-> orAmount(poolTokens.tokenX, ""),
         tokenYMint |-> orAmount(poolTokens.tokenY, "")]

\* const [poolTokens, setPoolTokens] = useState({}); setPoolTokens is never
\* called.  An absent address is the empty sequence, as for orAmount.
FormPoolTokens == [tokenX |-> <<>>, tokenY |-> <<>>]

\* RemoveLiquidityService.validateRemoveParameters
validateRemoveParameters(req) ==
    LET errors ==
            (IF isPublicKey(req.poolAddress) THEN <<>> ELSE <<"Invalid pool address">>)
            \o (IF isPublicKey(req.walletPublicKey) THEN <<>> ELSE <<"Invalid wallet address">>)
            \o (IF isPublicKey(req.tokenXMint) THEN <<>> ELSE <<"Invalid Token X address">>)
            \o (IF isPublicKey(req.tokenYMint) THEN <<>> ELSE <<"Invalid Token Y address">>)
            \o (IF Len(req.positions) = 0
                THEN <<"At least one position is required">> ELSE <<>>)
            \o (IF req.binRange[1] > req.binRange[2]
                THEN <<"Invalid bin range: start must be less than or equal to end">>
                ELSE <<>>)
            \o (IF req.removeType \in RemoveLiquidityTypes
                THEN <<>> ELSE <<"Invalid remove type">>)
    IN  [isValid |-> Len(errors) = 0, errors |-> errors]

\* setTimeout(loadPositions, 500) of the render with this pool address
Timeout(poolAddress) == [type |-> "timeout", poolAddress |-> poolAddress]

\* useState initial values, after the effects of the first render
RemoveFormInit ==
    /\ formData = [poolAddress |-> "", selectedPositions |-> <<>>, binRangeStart |-> 0,
                   binRangeEnd |-> 0, removeType |-> RemoveBoth, removeMode |-> "complete"]
    /\ userPositions = <<>>
    /\ filteredPositions = <<>>
    /\ validationErrors = <<>>
    /\ successMessage = ""
    /\ isLoading = FALSE
    /\ isLoadingPositions = FALSE
    /\ debounceTimer = Timeout("")
    /\ positionLoads = <<>>

\* the form not on screen
RemoveFormIdle ==
    /\ formData = [poolAddress |-> "", selectedPositions |-> <<>>, binRangeStart |-> 0,
                   binRangeEnd |-> 0, removeType |-> RemoveBoth, removeMode |-> "complete"]
    /\ userPositions = <<>>
    /\ filteredPositions = <<>>
    /\ validationErrors = <<>>
    /\ successMessage = ""
    /\ isLoading = FALSE
    /\ isLoadingPositions = FALSE
    /\ debounceTimer = Null
    /\ positionLoads = <<>>

\* the render after setFormData(fd) and setUserPositions(loaded): the
\* loadPositions effect (lines 44-69: clearTimeout, then a new setTimeout when
\* the pool address changed) and the filteredPositions effect (lines 72-81)
formRenders(fd, loaded, timer) ==
    /\ formData' = fd
    /\ userPositions' = loaded
    /\ filteredPositions' = filteredPositionsEffect(loaded, fd.removeMode, fd.binRangeStart,
                                                    fd.binRangeEnd)
    /\ debounceTimer' = IF fd.poolAddress # formData.poolAddress
                        THEN Timeout(fd.poolAddress) ELSE timer

\* the position list and its buttons are on screen (line 304)
positionsShown == Len(userPositions) > 0 /\ ~isLoadingPositions

FormFields == {"poolAddress", "binRangeStart", "binRangeEnd", "removeMode"}

FieldInputs(field) ==
    CASE field = "poolAddress" -> PoolAddressInputs
      [] field \in {"binRangeStart", "binRangeEnd"} -> BinRangeInputs
      [] field = "removeMode" -> RemoveModes

\* handleInputChange(field, value); the pool address field is always on
\* screen, the others with the position list
HandleInputChange ==
    \E field \in FormFields :
        \E value \in FieldInputs(field) :
            /\ field # "poolAddress" => positionsShown
            /\ value # formData[field]
            /\ formRenders([formData EXCEPT ![field] = value], userPositions, debounceTimer)
            /\ validationErrors' = <<>>
            /\ successMessage' = ""
            /\ UNCHANGED <<isLoading, isLoadingPositions, positionLoads>>
            /\ UNCHANGED <<distVars, addFormVars, removeVars, positionVars, validateVars, binVars, retryVars, poolVars, liquidityVars>>

\* handlePositionToggle(position.positionMint) of a listed position
HandlePositionToggle ==
    \E k \in 1..Len(filteredPositions) :
        LET positionMint == filteredPositions[k].positionMint
            selected == formData.selectedPositions
        IN  /\ positionsShown
            /\ formRenders([formData EXCEPT !.selectedPositions =
                               IF includes(selected, positionMint)
                               THEN SelectSeq(selected, LAMBDA p : p # positionMint)
                               ELSE Append(selected, positionMint)],
                           userPositions, debounceTimer)
            /\ UNCHANGED <<validationErrors, successMessage, isLoading, isLoadingPositions, positionLoads>>
            /\ UNCHANGED <<distVars, addFormVars, removeVars, positionVars, validateVars, binVars, retryVars, poolVars, liquidityVars>>

\* handleSelectAll
HandleSelectAll ==
    /\ positionsShown
    /\ formRenders([formData EXCEPT !.selectedPositions =
                       IF Len(formData.selectedPositions) = Len(filteredPositions)
                       THEN <<>> ELSE positionMints(filteredPositions)],
                   userPositions, debounceTimer)
    /\ UNCHANGED <<validationErrors, successMessage, isLoading, isLoadingPositions, positionLoads>>
    /\ UNCHANGED <<distVars, addFormVars, removeVars, positionVars, validateVars, binVars, retryVars, poolVars, liquidityVars>>

\* the 500 ms timer fires: loadPositions up to its await, with the pool
\* address of the render that set the timer
DebounceFires ==
    /\ debounceTimer # Null
    /\ IF debounceTimer.poolAddress # ""
       THEN /\ Len(positionLoads) < MaxLoads
            /\ isLoadingPositions' = TRUE
            /\ positionLoads' = Append(positionLoads, debounceTimer.poolAddress)
            /\ formRenders(formData, userPositions, Null)
       ELSE /\ formRenders(formData, <<>>, Null)
            /\ UNCHANGED <<isLoadingPositions, positionLoads>>
    /\ UNCHANGED <<validationErrors, successMessage, isLoading>>
    /\ UNCHANGED <<distVars, addFormVars, removeVars, positionVars, validateVars, binVars, retryVars, poolVars, liquidityVars>>

\* loadPositions after its await: getUserPositions resolves or rejects
LoadPositionsSettles ==
    \E k \in 1..Len(positionLoads), resolved \in BOOLEAN :
        /\ IF resolved
           THEN /\ formRenders(formData, WalletPositions(positionLoads[k]), debounceTimer)
                /\ validationErrors' = <<>>
           ELSE /\ formRenders(formData, <<>>, debounceTimer)
                /\ validationErrors' = <<"Failed to load positions: Failed to fetch positions">>
        /\ isLoadingPositions' = FALSE
        /\ positionLoads' = [j \in 1..(Len(positionLoads) - 1) |->
                                IF j < k THEN positionLoads[j] ELSE positionLoads[j + 1]]
        /\ UNCHANGED <<successMessage, isLoading>>
        /\ UNCHANGED <<distVars, addFormVars, removeVars, positionVars, validateVars, binVars, retryVars, poolVars, liquidityVars>>

\* a click on the Remove Liquidity button (enabled: line 559):
\* validateAndRemoveLiquidity up to its first await.  The rest of the handler
\* (lines 165-236: the service call, signAllTransactions, the send and
\* confirm loop, the success message and the reload) runs with isLoading
\* true; no state of the form gets there, since the validation of a request
\* with empty token addresses fails.
ValidateAndRemoveLiquidity ==
    /\ ~isLoading
    /\ Len(formData.selectedPositions) > 0
    /\ LET req == removeLiquidityRequest(formData, userPositions, FormPoolTokens)
           checked == validateRemoveParameters(req)
       IN  /\ validationErrors' = IF checked.isValid THEN <<>> ELSE checked.errors
           /\ isLoading' = checked.isValid
    /\ UNCHANGED <<formData, userPositions, filteredPositions, successMessage, isLoadingPositions, debounceTimer, positionLoads>>
    /\ UNCHANGED <<distVars, addFormVars, removeVars, positionVars, validateVars, binVars, retryVars, poolVars, liquidityVars>>

----------------------------------------------------------------------------
(* Specifications *)

Init == DistIdle /\ AddFormInit /\ RemoveIdle /\ PositionsIdle /\ ValidateIdle /\ BinsIdle /\ RetryIdle /\ PoolCacheIdle /\ LiquidityIdle /\ RemoveFormIdle

DistNext == GenerateDefaultDistribution

AddFormNext ==
    \/ MountAddLiquidity
    \/ BinsLeftMinus
    \/ BinsLeftPlus
    \/ BinsLeftTyped
    \/ BinsRightMinus
    \/ BinsRightPlus
    \/ BinsRightTyped

RemoveNext ==
    \/ RemoveLiquidityFromRange
    \/ CalculateEstimatedRemoval
    \/ FilterPositionsEffect

PositionsNext ==
    \/ GetAllUserPositions
    \/ EnrichPositionData

PortfolioNext ==
    \/ GetPortfolioSummary
    \/ GroupPositionsByPool

ValidateNext == ValidateAddLiquidityParameters

BinsNext ==
    \/ CreatePoolWithSDK
    \/ GetPoolAnalytics
    \/ GenerateAlgorithmicBinData
    \/ FetchPoolBins
    \/ GenerateBinDistributionData
    \/ GetEnhancedBinData

RetryNext ==
    \/ CallFn
    \/ FnResolves
    \/ FnRejects
    \/ SleepElapses

PoolCacheNext ==
    \/ ClockAdvances
    \/ \E c \in FetchCallers : FetchAllPools(c)
    \/ \E c \in FetchCallers : LoadEnhancedPoolsSettles(c)
    \/ \E c \in FetchCallers : LoadRealPoolsSettles(c)
    \/ \E c \in FetchCallers : PoolsJsonSettles(c)

LiquidityNext ==
    \/ ClockAdvances
    \/ GetBinLiquidity
    \/ EnhancedFetchSettles

RemoveFormNext ==
    \/ HandleInputChange
    \/ HandlePositionToggle
    \/ HandleSelectAll
    \/ DebounceFires
    \/ LoadPositionsSettles
    \/ ValidateAndRemoveLiquidity

Next ==
    \/ DistNext \/ AddFormNext \/ RemoveNext \/ PositionsNext \/ PortfolioNext
    \/ ValidateNext \/ BinsNext \/ RetryNext \/ PoolCacheNext \/ LiquidityNext
    \/ RemoveFormNext

Spec == Init /\ [][Next]_vars

\* generateDefaultDistribution applied to every pair of arguments of the bounds
InitDist == DistInit /\ AddFormInit /\ RemoveIdle /\ PositionsIdle /\ ValidateIdle /\ BinsIdle /\ RetryIdle /\ PoolCacheIdle /\ LiquidityIdle /\ RemoveFormIdle
SpecDist == InitDist /\ [][DistNext]_vars

\* the add-liquidity form
SpecAddForm == Init /\ [][AddFormNext]_vars

\* the remove-liquidity service applied to every list of positions of the bounds
InitRemove == DistIdle /\ AddFormInit /\ RemoveInit /\ PositionsIdle /\ ValidateIdle /\ BinsIdle /\ RetryIdle /\ PoolCacheIdle /\ LiquidityIdle /\ RemoveFormIdle
SpecRemove == InitRemove /\ [][RemoveNext]_vars

\* the aggregator applied to every REST answer of the bounds
InitPositions == DistIdle /\ AddFormInit /\ RemoveIdle /\ PositionsInit /\ ValidateIdle /\ BinsIdle /\ RetryIdle /\ PoolCacheIdle /\ LiquidityIdle /\ RemoveFormIdle
SpecPositions == InitPositions /\ [][PositionsNext]_vars

\* the summary and the grouping applied to every list of the bounds
InitPortfolio == DistIdle /\ AddFormInit /\ RemoveIdle /\ PortfolioInit /\ ValidateIdle /\ BinsIdle /\ RetryIdle /\ PoolCacheIdle /\ LiquidityIdle /\ RemoveFormIdle
SpecPortfolio == InitPortfolio /\ [][PortfolioNext]_vars

\* the validation applied to every request of the bounds
InitValidate ==
    DistIdle /\ AddFormInit /\ RemoveIdle /\ PositionsIdle /\ ValidateInit /\ BinsIdle /\ RetryIdle /\ PoolCacheIdle /\ LiquidityIdle /\ RemoveFormIdle
SpecValidate == InitValidate /\ [][ValidateNext]_vars

\* the bin/price conversions and the bin series of every pool of the sample
InitBins == DistIdle /\ AddFormInit /\ RemoveIdle /\ PositionsIdle /\ ValidateIdle /\ BinsIdle /\ RetryIdle /\ PoolCacheIdle /\ LiquidityIdle /\ RemoveFormIdle
SpecBins == InitBins /\ [][BinsNext]_vars

\* withRetry for every script and retry count of the bounds; the event loop
\* runs every continuation that is ready, and a promise settles
InitRetry ==
    DistIdle /\ AddFormInit /\ RemoveIdle /\ PositionsIdle /\ ValidateIdle /\ BinsIdle /\ RetryInit /\ PoolCacheIdle /\ LiquidityIdle /\ RemoveFormIdle
SpecRetry == InitRetry /\ [][RetryNext]_vars /\ WF_vars(RetryNext)

\* two components calling fetchAllPools of either module while time passes
InitPoolCache ==
    DistIdle /\ AddFormInit /\ RemoveIdle /\ PositionsIdle /\ ValidateIdle /\ BinsIdle /\ RetryIdle
        /\ PoolCacheInit /\ LiquidityIdle /\ RemoveFormIdle
SpecPoolCache == InitPoolCache /\ [][PoolCacheNext]_vars

\* one component calling getBinLiquidity, for every state of the data files
\* and of the module cache; the event loop runs every continuation that is
\* ready, and every fetch settles
InitLiquidity ==
    DistIdle /\ AddFormInit /\ RemoveIdle /\ PositionsIdle /\ ValidateIdle /\ BinsIdle /\ RetryIdle
        /\ PoolCacheIdle /\ LiquidityInit /\ RemoveFormIdle
SpecLiquidity ==
    InitLiquidity /\ [][LiquidityNext]_vars
        /\ WF_vars(GetBinLiquidity) /\ WF_vars(EnhancedFetchSettles)

\* the remove-liquidity form on screen with a connected wallet
InitRemoveForm ==
    DistIdle /\ AddFormInit /\ RemoveIdle /\ PositionsIdle /\ ValidateIdle /\ BinsIdle /\ RetryIdle
        /\ PoolCacheIdle /\ LiquidityIdle /\ RemoveFormInit
SpecRemoveForm == InitRemoveForm /\ [][RemoveFormNext]_vars

----------------------------------------------------------------------------
(* Claims about the default distribution *)

validBinCounts == argBinsLeft >= 0 /\ argBinsRight >= 0

\* C1: for binsLeft, binsRight >= 0 with binsLeft + binsRight > 0 the entries
\* returned by generateDefaultDistribution sum (distributionX + distributionY)
\* to exactly 10000.
C1_DistributionSumsTo10000 ==
    (distPc = "returned" /\ validBinCounts /\ argBinsLeft + argBinsRight > 0)
        => totalDistribution(distribution) = TotalDistribution

\* C9: every entry returned by generateDefaultDistribution obeys the side-asset
\* rule: left of the active bin no token Y, right of it no token X, and the
\* active bin split evenly.
C9_SideAssetRule ==
    distPc = "returned" =>
        \A k \in 1..Len(distribution) :
            LET d == distribution[k]
            IN  /\ d.relativeBinId < 0 => d.distributionY = 0
                /\ d.relativeBinId > 0 => d.distributionX = 0
                /\ d.relativeBinId = 0 => d.distributionX = d.distributionY

C9_Witness ==
    /\ distPc = "returned"
    /\ \E k \in 1..Len(distribution) :
           distribution[k].relativeBinId < 0 /\ distribution[k].distributionX > 0
    /\ \E k \in 1..Len(distribution) :
           distribution[k].relativeBinId > 0 /\ distribution[k].distributionY > 0
    /\ \E k \in 1..Len(distribution) :
           distribution[k].relativeBinId = 0 /\ distribution[k].distributionX > 0

\* C10: for binsLeft, binsRight >= 0 the result has binsLeft + binsRight + 1
\* entries whose relativeBinId run from -binsLeft to +binsRight, increasing by
\* one from each entry to the next.
C10_ContiguousOffsets ==
    (distPc = "returned" /\ validBinCounts) =>
        /\ Len(distribution) = argBinsLeft + argBinsRight + 1
        /\ \A k \in 1..Len(distribution) :
               distribution[k].relativeBinId = k - 1 - argBinsLeft
        /\ distribution[1].relativeBinId = -argBinsLeft
        /\ distribution[Len(distribution)].relativeBinId = argBinsRight

C10_Witness ==
    /\ distPc = "returned"
    /\ argBinsLeft = 3
    /\ argBinsRight = 2
    /\ Len(distribution) = 6

----------------------------------------------------------------------------
(* Claims about the remove-liquidity service *)

\* the indices of the positions a range selects, written out from the claim
C2_Selected(ps, binRange) ==
    { k \in 1..Len(ps) :
        ~(ps[k].upperBinId < binRange[1] \/ ps[k].lowerBinId > binRange[2]) }

\* out is ps restricted to the indices S, in the order of ps
C2_IsRestriction(out, ps, S) ==
    /\ Len(out) = Cardinality(S)
    /\ \A j \in 1..Len(out) :
           \E k \in S : Cardinality({ i \in S : i < k }) = j - 1 /\ out[j] = ps[k]

\* the cents held on one side by the positions at the indices S
RECURSIVE C2_Cents(_, _, _)
C2_Cents(ps, S, side) ==
    IF S = {} THEN 0
    ELSE LET k == CHOOSE k \in S : TRUE
         IN  parseFloat(IF side = RemoveX THEN ps[k].totalLiquidityX
                        ELSE ps[k].totalLiquidityY).cents
                 + C2_Cents(ps, S \ {k}, side)

\* C2: the overlap selection returns exactly the positions p of the input, in
\* input order, with NOT (p.upperBinId < start OR p.lowerBinId > end); position
\* [10,20] is selected by range [15,25] and excluded by range [21,30]; the
\* service filter, the form's position filter and the removal estimate apply
\* the same predicate.
C2_OverlapSelection ==
    LET S == C2_Selected(positions, call.binRange)
        tenToTwenty == [lowerBinId |-> 10, upperBinId |-> 20]
    IN  /\ overlaps(tenToTwenty, <<15, 25>>)
        /\ ~overlaps(tenToTwenty, <<21, 30>>)
        /\ overlaps(tenToTwenty, <<10, 20>>)
        /\ overlaps(tenToTwenty, <<12, 14>>)
        /\ call.op = "removeLiquidityFromRange" =>
               /\ ~call.result.threw =>
                      C2_IsRestriction(call.result.removedPositions, positions, S)
               /\ S = {} => call.result.threw
        /\ (call.op = "filteredPositions" /\ call.removeMode = "partial") =>
               C2_IsRestriction(call.result, positions, S)
        /\ call.op = "calculateEstimatedRemoval" =>
               /\ call.removeType \in {RemoveBoth, RemoveX} =>
                      call.result.estimatedX
                          = numberToString(number(C2_Cents(positions, S, RemoveX)))
               /\ call.removeType \in {RemoveBoth, RemoveY} =>
                      call.result.estimatedY
                          = numberToString(number(C2_Cents(positions, S, RemoveY)))

\* a range that selects the second of two positions and not the first, the
\* selected one reaching beyond the range
C2_Witness ==
    /\ call.op = "removeLiquidityFromRange"
    /\ ~call.result.threw
    /\ Len(positions) = 2
    /\ C2_Selected(positions, call.binRange) = {2}
    /\ call.result.removedPositions = <<positions[2]>>
    /\ positions[2].lowerBinId < call.binRange[1]

\* C3: for every position that passes the overlap filter of
\* removeLiquidityFromRange the sub-range handed to the SDK is
\* start = max(binRange[0], lowerBinId), end = min(binRange[1], upperBinId)
\* with start <= end, for every binRange the function can be called with, a
\* binRange whose start exceeds its end included.
C3_ClippedRangeOrdered ==
    (call.op = "removeLiquidityFromRange" /\ ~call.result.threw) =>
        LET list == call.result.sdkRequest.maxPositionList
            removed == call.result.removedPositions
        IN  /\ Len(list) = Len(removed)
            /\ \A k \in 1..Len(list) :
                   /\ list[k].start = Max(call.binRange[1], removed[k].lowerBinId)
                   /\ list[k].end = Min(call.binRange[2], removed[k].upperBinId)
                   /\ list[k].start <= list[k].end

\* C4: the estimated amounts count only the liquidity of the clipped sub-range
\* of each overlapping position: when the removal range covers only part of an
\* overlapping position that holds a positive amount, the reported estimate is
\* strictly less than the full amounts of the overlapping positions.
C4_EstimateCountsClippedRangeOnly ==
    (/\ call.op = "calculateEstimatedRemoval"
     /\ call.binRange[1] <= call.binRange[2]) =>
        LET S == C2_Selected(positions, call.binRange)
            partly(k) == \/ positions[k].lowerBinId < call.binRange[1]
                         \/ positions[k].upperBinId > call.binRange[2]
        IN  /\ (/\ call.removeType \in {RemoveBoth, RemoveX}
                 /\ \E k \in S : partly(k) /\ parseFloat(positions[k].totalLiquidityX).cents > 0)
                    => parseFloat(call.result.estimatedX).cents
                           < C2_Cents(positions, S, RemoveX)
            /\ (/\ call.removeType \in {RemoveBoth, RemoveY}
                 /\ \E k \in S : partly(k) /\ parseFloat(positions[k].totalLiquidityY).cents > 0)
                    => parseFloat(call.result.estimatedY).cents
                           < C2_Cents(positions, S, RemoveY)

\* C12: when no position overlaps the requested bin range, range removal
\* reports the empty selection as a returned value, not as a thrown exception,
\* and produces no removal plan: removeMultipleLiquidity is not called and no
\* transaction is returned.
C12_EmptySelectionIsReturned ==
    (/\ call.op = "removeLiquidityFromRange"
     /\ C2_Selected(positions, call.binRange) = {}
     /\ call.result.threw => call.result.message # "Remove liquidity failed: SDK error") =>
        /\ ~call.result.threw
        /\ "sdkRequest" \notin DOMAIN call.result
        /\ "transactions" \notin DOMAIN call.result

----------------------------------------------------------------------------
(* Claims about the position-management service *)

\* the positions a call of the aggregator emitted
C5_Emitted ==
    IF pmCall.op = "getAllUserPositions" /\ ~pmCall.result.threw
    THEN { pmCall.result.positions[k] : k \in 1..Len(pmCall.result.positions) }
    ELSE {}

\* C5: for every position the aggregator emits (convertBinPositionToDetailed,
\* enrichPositionData and its fallback), if the pool's active bin id lies
\* outside [lowerBinId, upperBinId] then isInRange is false and utilizationRate
\* is 0; when it lies inside, utilizationRate is a value in [0, 1].
C5_OutOfRangeUtilizationZero ==
    /\ \A p \in C5_Emitted :
           IF p.activeBinId < p.lowerBinId \/ p.activeBinId > p.upperBinId
           THEN ~p.isInRange /\ p.utilizationRate = 0
           ELSE p.utilizationRate >= 0 /\ p.utilizationRate <= RandomScale
    /\ pmCall.op = "enrichPositionData" =>
           LET p == pmCall.result
           IN  IF \/ pmCall.pairInfo = Undefined
                  \/ pmCall.pairInfo.activeId < p.lowerBinId
                  \/ pmCall.pairInfo.activeId > p.upperBinId
               THEN ~p.isInRange /\ p.utilizationRate = 0
               ELSE p.utilizationRate >= 0 /\ p.utilizationRate <= RandomScale

\* one answer with a position in range that is utilized and a position whose
\* range lies below the active bin
C5_Witness ==
    /\ \E p \in C5_Emitted : p.isInRange /\ p.utilizationRate > 0
    /\ \E p \in C5_Emitted :
           p.activeBinId > p.upperBinId /\ ~p.isInRange /\ p.utilizationRate = 0

\* C6: getAllUserPositions never loses a record: for every pool the pool-level
\* fetch returned and every raw bin record returned for that pool the result
\* holds one DetailedPosition; a record whose token metadata cannot be resolved
\* is emitted with "Unknown" symbols, and a failure while converting one record
\* removes neither that record nor the other records of its pool.
C6_NoRecordLost ==
    (pmCall.op = "getAllUserPositions" /\ ~pmCall.poolsFail) =>
        /\ ~pmCall.result.threw
        /\ \A i \in 1..Len(pools) :
               ~pools[i].binsFail =>
                   /\ Cardinality({ k \in 1..Len(pmCall.result.positions) :
                                      pmCall.result.positions[k].poolAddress
                                          = pools[i].pair_address })
                          = Len(pools[i].bins)
                   /\ \A k \in 1..Len(pools[i].bins) :
                          pools[i].bins[k] # Null =>
                              \E p \in C5_Emitted :
                                  /\ p.position = pools[i].bins[k].position_address
                                  /\ pools[i].token_x = Undefined
                                         => p.tokenX.symbol = "Unknown"
                                  /\ pools[i].token_y = Undefined
                                         => p.tokenY.symbol = "Unknown"

\* the cents of totalValue over the positions at the indices S, a missing
\* value counting as 0
RECURSIVE C7_ValueCents(_, _)
C7_ValueCents(ps, S) ==
    IF S = {} THEN 0
    ELSE LET k == CHOOSE k \in S : TRUE
         IN  (IF ps[k].totalValue = <<>> THEN 0 ELSE parseFloat(ps[k].totalValue).cents)
                 + C7_ValueCents(ps, S \ {k})

\* the cents of feesEarned.totalUsd over the positions at the indices S
RECURSIVE C7_FeeCents(_, _)
C7_FeeCents(ps, S) ==
    IF S = {} THEN 0
    ELSE LET k == CHOOSE k \in S : TRUE
         IN  (IF ps[k].feesEarned.totalUsd = <<>> THEN 0
              ELSE parseFloat(ps[k].feesEarned.totalUsd).cents)
                 + C7_FeeCents(ps, S \ {k})

C7_Scenario ==
    <<DetailedPosition(1, "A", <<<<"1", "0", "0", ".", "0", "0">>, <<"0">>, Undefined>>),
      DetailedPosition(2, "A", <<<<"5", "0", ".", "5", "0">>, <<"0">>, Undefined>>),
      DetailedPosition(3, "B", <<<<"0">>, <<"0">>, Undefined>>)>>

\* C7: getPortfolioSummary returns totalValueUsd equal to the exact sum (not
\* the mean) of totalValue over all input positions and totalFeesEarnedUsd
\* equal to the exact sum of feesEarned.totalUsd, a missing value counting as
\* 0; "100.00", "50.50", "0" give "150.50", and an empty list a zero total.
C7_SummaryTotalsAreSums ==
    /\ getPortfolioSummary(C7_Scenario).totalValueUsd = <<"1", "5", "0", ".", "5", "0">>
    /\ parseFloat(getPortfolioSummary(<<>>).totalValueUsd) = number(0)
    /\ parseFloat(getPortfolioSummary(<<>>).totalFeesEarnedUsd) = number(0)
    /\ pmCall.op = "getPortfolioSummary" =>
           /\ pmCall.result.totalValueUsd
                  = toFixed2(number(C7_ValueCents(detailed, 1..Len(detailed))))
           /\ parseFloat(pmCall.result.totalValueUsd).cents
                  = C7_ValueCents(detailed, 1..Len(detailed))
           /\ pmCall.result.totalFeesEarnedUsd
                  = toFixed2(number(C7_FeeCents(detailed, 1..Len(detailed))))
           /\ parseFloat(pmCall.result.totalFeesEarnedUsd).cents
                  = C7_FeeCents(detailed, 1..Len(detailed))

\* the summary of three positions worth "100.00", "50.50" and "0"
C7_Witness ==
    /\ pmCall.op = "getPortfolioSummary"
    /\ Len(detailed) = 3
    /\ detailed[1].totalValue = <<"1", "0", "0", ".", "0", "0">>
    /\ detailed[2].totalValue = <<"5", "0", ".", "5", "0">>
    /\ detailed[3].totalValue = <<"0">>
    /\ pmCall.result.totalValueUsd = <<"1", "5", "0", ".", "5", "0">>

C8_Scenario ==
    <<DetailedPosition(1, "A", <<<<"1", "0">>, <<"0">>, Undefined>>),
      DetailedPosition(2, "B", <<<<"5">>, <<"0">>, Undefined>>),
      DetailedPosition(3, "A", <<<<"2", "0">>, <<"0">>, Undefined>>)>>

----------------------------------------------------------------------------
(* Claims about the add-liquidity validation *)

\* the sum of distributionX + distributionY over the entries at the indices S
RECURSIVE C11_SumOf(_, _)
C11_SumOf(d, S) ==
    IF S = {} THEN 0
    ELSE LET k == CHOOSE k \in S : TRUE
         IN  d[k].distributionX + d[k].distributionY + C11_SumOf(d, S \ {k})

C11_DistributionMessages ==
    { "Liquidity distribution is required",
      "Total distribution must equal 10000 (100%)",
      "Negative bin IDs can only have token X distribution",
      "Positive bin IDs can only have token Y distribution" }

\* C11: the validation reports no distribution violation if and only if (a)
\* the entries sum to exactly 10000, (b) no entry left of the active bin holds
\* token Y and none right of it holds token X, and (c) the relativeBinId values
\* are pairwise distinct; the result is a list of messages with isValid true
\* exactly when it is empty.
C11_ValidationIffRules ==
    validation.called =>
        LET d == request.liquidityDistribution
            errors == validation.result.errors
            reported == \E k \in 1..Len(errors) : errors[k] \in C11_DistributionMessages
            sumRule == C11_SumOf(d, 1..Len(d)) = 10000
            sideRule == \A k \in 1..Len(d) :
                            /\ d[k].relativeBinId < 0 => d[k].distributionY <= 0
                            /\ d[k].relativeBinId > 0 => d[k].distributionX <= 0
            distinctRule == \A j, k \in 1..Len(d) :
                                d[j].relativeBinId = d[k].relativeBinId => j = k
        IN  /\ ~reported <=> (sumRule /\ sideRule /\ distinctRule)
            /\ validation.result.isValid <=> (Len(errors) = 0)

\* the numeric and amount fields of an emitted position are all there: the bin
\* ids numbers, the amounts strings that are not empty
C13_FieldsDefined(p) ==
    /\ p.lowerBinId \in Int
    /\ p.upperBinId \in Int
    /\ \A token \in {p.tokenX, p.tokenY} :
           /\ {"amount", "usdValue"} \subseteq DOMAIN token
           /\ Len(token.amount) > 0
           /\ Len(token.usdValue) > 0
    /\ Len(p.totalValue) > 0
    /\ {"tokenX", "tokenY", "totalUsd"} \subseteq DOMAIN p.feesEarned
    /\ Len(p.feesEarned.tokenX) > 0
    /\ Len(p.feesEarned.tokenY) > 0
    /\ Len(p.feesEarned.totalUsd) > 0

\* C13: for every position the aggregator emits, whatever the raw bin record
\* and pool record lack, lowerBinId and upperBinId are numbers and
\* tokenX.amount, tokenY.amount, tokenX.usdValue, tokenY.usdValue, totalValue,
\* feesEarned.tokenX, feesEarned.tokenY and feesEarned.totalUsd are strings
\* defaulting to "0", on the conversion path and on the fallback record
\* returned when enrichment fails.
C13_EmittedFieldsDefined ==
    /\ \A p \in C5_Emitted : C13_FieldsDefined(p)
    /\ pmCall.op = "enrichPositionData" => C13_FieldsDefined(pmCall.result)

\* the sum of the APYs of the positions at the indices S
RECURSIVE C14_ApySum(_, _)
C14_ApySum(ps, S) ==
    IF S = {} THEN 0
    ELSE LET k == CHOOSE k \in S : TRUE
         IN  ps[k].performance.apy.value + C14_ApySum(ps, S \ {k})

\* C14: getPortfolioSummary returns averageApy undefined (not 0) exactly when
\* no input position has performance.apy defined, and otherwise the arithmetic
\* mean of the defined APYs; a position whose reported APY is 0 counts as
\* reporting zero yield, not as missing data.
C14_AverageApy ==
    /\ pmCall.op = "getPortfolioSummary" =>
           LET defined == { k \in 1..Len(detailed) :
                              detailed[k].performance.apy # Undefined }
           IN  /\ pmCall.result.averageApy = Undefined <=> defined = {}
               /\ defined # {} =>
                      pmCall.result.averageApy
                          = Num(quotient(C14_ApySum(detailed, defined), Cardinality(defined)))
    /\ (pmCall.op = "getAllUserPositions" /\ ~pmCall.result.threw) =>
           \A i \in 1..Len(pools) : \A k \in 1..Len(pools[i].bins) :
               \A p \in C5_Emitted :
                   (/\ pools[i].bins[k] # Null
                    /\ p.position = pools[i].bins[k].position_address
                    /\ pools[i].bins[k].apy # Undefined)
                       => p.performance.apy = pools[i].bins[k].apy

----------------------------------------------------------------------------
(* Claims about bin ids, prices and bin series *)

\* C15: for every binStep > 0 and every integer binId, converting the binId
\* to a price and converting that price back with the same binStep returns
\* the binId.
C15_PriceRoundTrip ==
    (binCall.op = "getPoolAnalytics" /\ binCall.binStep = binCall.poolBinStep)
        => binCall.activeBinId = binCall.activeId

\* C16: the price of a bin depends on the pool's bin step: it is the
\* reference price at bin 8388608 and grows by the factor 1 + binStep/10000
\* from one bin id to the next.
C16_PriceFollowsBinStep ==
    /\ binCall.op = "generateAlgorithmicBinData" =>
           \A j \in 1..Len(binCall.bins) :
               LET bin == binCall.bins[j]
               IN  bin.price = PowPrice(100, 10000 + bin.poolMetadata.binStep,
                                        bin.binId - CenterBinId)
    /\ (binCall.op = "fetchPoolBins" /\ binCall.result # Null) =>
           \A j \in 1..Len(binCall.result.bins) :
               LET bin == binCall.result.bins[j]
               IN  /\ bin.price.base = 10000 + binCall.result.binStep
                   /\ bin.price.exponent = bin.binId - binCall.result.activeBinId

\* the bins are exactly those of a - h .. a + h, one each, in ascending order
C17_Spans(bins, a, h) ==
    /\ Len(bins) = 2 * h + 1
    /\ \A j \in 1..Len(bins) : bins[j].binId = a - h + j - 1

\* C17: the generated bin series holds exactly one bin for every binId in
\* [a - h, a + h] around the active bin a, in ascending order, for every TVL
\* and every jitter value (h is 12, 20 and 10 for the three generators).
C17_SeriesContiguous ==
    /\ binCall.op = "generateAlgorithmicBinData" =>
           C17_Spans(binCall.bins, orNumber(binCall.centerBinId, CenterBinId),
                     AlgorithmicBinRange)
    /\ (binCall.op = "fetchPoolBins" /\ binCall.result # Null) =>
           C17_Spans(binCall.result.bins, binCall.result.activeBinId, fetchBinRange)
    /\ binCall.op = "generateBinDistributionData" =>
           C17_Spans(binCall.bins, CenterBinId, DistributionBinRange)

\* exactly one bin is active, and it is the bin with the id a
C18_OneActive(bins, a) ==
    /\ Cardinality({j \in 1..Len(bins) : bins[j].isActive}) = 1
    /\ \A j \in 1..Len(bins) : bins[j].isActive <=> bins[j].binId = a

C19_Flagged(bin) == "isSynthetic" \in DOMAIN bin /\ bin.isSynthetic = TRUE

\* C19: every bin of the synthetic generators carries isSynthetic === true and
\* no bin passed through from a stored snapshot carries the flag.
C19_SyntheticFlag ==
    /\ binCall.op \in {"generateAlgorithmicBinData", "generateBinDistributionData"} =>
           \A j \in 1..Len(binCall.bins) : C19_Flagged(binCall.bins[j])
    /\ (binCall.op = "fetchPoolBins" /\ binCall.result # Null) =>
           \A j \in 1..Len(binCall.result.bins) : C19_Flagged(binCall.result.bins[j])
    /\ (binCall.op = "getEnhancedBinData" /\ "bins" \in DOMAIN binCall.result) =>
           \A j \in 1..Len(binCall.result.bins) :
               "isSynthetic" \notin DOMAIN binCall.result.bins[j]

----------------------------------------------------------------------------
(* Claims about the removal estimate *)

\* C20: the remove type gates the estimated totals: with Both, estimatedX and
\* estimatedY each sum over the overlapping positions; with X only, estimatedY
\* is 0 and estimatedX is as with Both; with Y only, estimatedX is 0 and
\* estimatedY is as with Both; positions outside binRange add to neither.
C20_RemoveTypeGatesTotals ==
    call.op = "calculateEstimatedRemoval" =>
        LET S == C2_Selected(positions, call.binRange)
            sumX == numberToString(number(C2_Cents(positions, S, RemoveX)))
            sumY == numberToString(number(C2_Cents(positions, S, RemoveY)))
            both == calculateEstimatedRemoval(positions, call.binRange, RemoveBoth)
        IN  /\ both.estimatedX = sumX /\ both.estimatedY = sumY
            /\ call.removeType = RemoveBoth => call.result = both
            /\ call.removeType = RemoveX =>
                   call.result.estimatedX = both.estimatedX
                       /\ call.result.estimatedY = <<"0">>
            /\ call.removeType = RemoveY =>
                   call.result.estimatedX = <<"0">>
                       /\ call.result.estimatedY = both.estimatedY

\* an X-only estimate over two funded positions of which the range selects
\* the second: estimatedX is its amount, estimatedY is 0
C20_Witness ==
    /\ call.op = "calculateEstimatedRemoval"
    /\ call.removeType = RemoveX
    /\ Len(positions) = 2
    /\ C2_Selected(positions, call.binRange) = {2}
    /\ positions[1].totalLiquidityX = <<"7">>
    /\ positions[2].totalLiquidityY = <<"5">>
    /\ call.result.estimatedX = <<"2", "0">>
    /\ call.result.estimatedY = <<"0">>

----------------------------------------------------------------------------
(* Claims about invalid arguments *)

\* C23: generateDefaultDistribution fails and returns no entries whenever
\* binsLeft < 0 or binsRight < 0; it never returns a distribution computed
\* from a negative bin count.
C23_NegativeBinCountRejected ==
    (distPc = "returned" /\ (argBinsLeft < 0 \/ argBinsRight < 0))
        => distribution = <<>>

\* C24: the bin/price conversions fail fast on invalid input: with a bin
\* step <= 0 no bin id and no price is returned, in particular none computed
\* from a substituted default.
C24_InvalidBinStepRejected ==
    /\ (binCall.op = "fetchPoolBins" /\ binCall.poolMetadata # Null) =>
           LET given == IF binCall.poolMetadata.binStep # Undefined
                        THEN binCall.poolMetadata.binStep
                        ELSE binCall.pool.binStep
           IN  given.value <= 0 => "bins" \notin DOMAIN binCall.result
    /\ (binCall.op = "getPoolAnalytics" /\ binCall.metadata.binStep # Undefined) =>
           (binCall.metadata.binStep.value <= 0 => "activeBinId" \notin DOMAIN binCall)

----------------------------------------------------------------------------
(* Claims about the range flag *)

\* the flag of the record agrees with the bounds and active bin of the record
C30_Agrees(p) ==
    p.isInRange <=> (p.activeBinId >= p.lowerBinId /\ p.activeBinId <= p.upperBinId)

\* C30: for every DetailedPosition the aggregator emits, isInRange equals
\* (activeBinId >= lowerBinId AND activeBinId <= upperBinId) on the values
\* stored in the same record, records whose raw bin_id_lower, bin_id_upper or
\* active_bin_id were missing and defaulted to 0 included.
C30_RangeFlagAgrees ==
    /\ \A p \in C5_Emitted : C30_Agrees(p)
    /\ (pmCall.op = "enrichPositionData" /\ "activeBinId" \in DOMAIN pmCall.result)
           => C30_Agrees(pmCall.result)

----------------------------------------------------------------------------
(* Claims about withRetry *)

\* the call is over: a value or null was returned, or the error was thrown
C21_Done == retry.pc \in {"returned", "threw"}

\* the delays slept so far, written out
C21_Backoff == <<1000, 2000, 4000, 8000, 16000, 32000>>

C21_Safe ==
    retry.pc # "none" =>
        /\ retry.calls <= retry.maxRetries + 1
        /\ retry.calls <= retry.attempt + 1
        /\ Len(retry.delays) <= retry.maxRetries
        /\ \A k \in 1..Len(retry.delays) : retry.delays[k] = C21_Backoff[k]
        /\ retry.pc \in {"try", "await"} => Len(retry.delays) = retry.calls - (IF retry.pc = "await" THEN 1 ELSE 0)
        /\ (C21_Done /\ retry.result = FnValue) =>
               /\ retry.pc = "returned"
               /\ retry.calls = retry.attempt + 1
               /\ Len(retry.delays) = retry.attempt
        /\ (C21_Done /\ retry.result # FnValue) =>
               /\ retry.calls = retry.maxRetries + 1
               /\ retry.attempt = retry.maxRetries + 1
               /\ Len(retry.delays) = retry.maxRetries
               /\ IF retry.script = "fetch_bins.js"
                  THEN retry.pc = "returned" /\ retry.result = Null
                  ELSE retry.pc = "threw" /\ retry.result = FnError

\* C21: withRetry calls fn at most maxRetries + 1 times, stops at the first
\* successful call and returns its value, waits RETRY_BASE_DELAY_MS * 2^(k-1)
\* ms before the k-th retry, and always terminates: after the last failed
\* attempt it propagates the error (pool fetchers) or returns null (bin
\* fetcher).
C21_WithRetryTerminates ==
    /\ []C21_Safe
    /\ [][C21_Done => UNCHANGED retry]_vars
    /\ <>C21_Done

\* the default of 4 retries used up by the bin fetcher: five calls, the
\* delays 1 s, 2 s, 4 s, 8 s, and null returned
C21_Witness ==
    /\ retry.pc = "returned"
    /\ retry.script = "fetch_bins.js"
    /\ retry.maxRetries = MAX_RETRIES
    /\ retry.calls = 5
    /\ retry.delays = <<1000, 2000, 4000, 8000>>
    /\ retry.result = Null

----------------------------------------------------------------------------
(* Claims about the pool cache *)

\* the call c returns in this step
C22_Returns(c) == fetchCalls[c].pc # "done" /\ fetchCalls'[c].pc = "done"

\* a call is served from the cache exactly when the list it found was not
\* empty and less than 60000 ms old, and then returns that list
C22_ServedWhenFresh ==
    \A c \in FetchCallers :
        fetchCalls[c].pc = "done" =>
            LET made == fetchCalls[c]
                fresh == /\ made.seen.allPools # <<>>
                         /\ made.now - made.seen.lastFetch < 60000
            IN  /\ made.source = "cache" <=> fresh
                /\ made.source = "cache" => made.result = made.seen.allPools

\* a load that fails or yields no pools leaves the list and its timestamp
C22_FailedLoadKeepsCache ==
    \A c \in FetchCallers :
        (C22_Returns(c) /\ fetchCalls'[c].result = <<>>)
            => (allPools' = allPools /\ lastFetch' = lastFetch)

\* C22: fetchAllPools serves from the cache exactly when the cached list is
\* non-empty and less than 60000 ms have passed since the timestamp of the
\* load that filled it, without invoking a loader; a call made 60000 ms or
\* more after that timestamp reloads; a load that fails or yields no pools
\* never replaces the cached list or its timestamp.
C22_CacheServedAndKept ==
    []C22_ServedWhenFresh /\ [][C22_FailedLoadKeepsCache]_vars

\* C29: under every interleaving of concurrent fetchAllPools calls the cache
\* timestamp lastFetch never decreases: a call that started earlier and
\* finished later never overwrites the list and timestamp stored by a call
\* that started after it.
C29_CacheNeverRegresses == [][lastFetch' >= lastFetch]_vars

----------------------------------------------------------------------------
(* Claims about getBinLiquidity *)

\* C25: getBinLiquidity always terminates: for every state of the data files
\* and of the module cache a call eventually returns a bin list or an empty
\* list; the mutual calls getBinLiquidity -> getEnhancedBinData ->
\* getBinLiquidity cannot cycle forever when no enhanced bin data exists.
C25_GetBinLiquidityTerminates == <>(liquidityCall.pc = "done")

----------------------------------------------------------------------------
(* Claims about the remove-liquidity form *)

C26_Submittable ==
    /\ isPublicKey(formData.poolAddress)
    /\ Len(selectedPosData(userPositions, formData.selectedPositions)) > 0
    /\ formData.removeMode = "partial" => formData.binRangeStart <= formData.binRangeEnd

C27_SelectedAreFiltered ==
    \A j \in 1..Len(formData.selectedPositions) :
        includes(positionMints(filteredPositions), formData.selectedPositions[j])

\* C28: once no load is in flight and no debounce timer is pending, the
\* displayed userPositions are the result of the load issued for the current
\* poolAddress: its positions, or none when that load failed.
C28_PositionsOfCurrentPool ==
    (debounceTimer = Null /\ Len(positionLoads) = 0)
        => userPositions \in {WalletPositions(formData.poolAddress), <<>>}

====
